---- MODULE Spec2Model ----
(***************************************************************************)
(* Message reconciliation of the chat client: inbound duplex events are    *)
(* folded into the per-conversation message log.  The repository holds two *)
(* variants of the chat component:                                         *)
(*   "processor" - Chat (part_001:684-836) calling processWebSocketMessage *)
(*                 of utils/app/websocketMessageProcessor.ts;              *)
(*   "inline"    - Chat (part_001:885-1896) with processSystemResponse-    *)
(*                 Message / processIntermediateStepMessage /              *)
(*                 processErrorMessage defined inside the component.       *)
(* Text is a sequence of characters; " " is the whitespace character.      *)
(* The second argument of processIntermediateMessage's callers, the        *)
(* 'intermediateStepOverride' setting, and the timestamp the inline engine *)
(* writes are not part of the model.                                       *)
(***************************************************************************)
EXTENDS Integers, Sequences, FiniteSets, TLC

\* ---------------------------------------------------------------- bounds
MaxMessages == 3      \* longest message log explored
MaxContent == 2       \* longest streamed assistant content explored
MaxRecords == 1       \* longest errorMessages / humanInteractionMessages list explored
MaxTimers == 1        \* most pending 200ms stop-streaming timers explored
MaxSockets == 2       \* most sockets of one session alive or awaiting their reconnect timer
MaxOutbound == 2      \* most outbound frames queued or written in one behaviour

\* ------------------------------------------------------ program constants
TitleLen == 30

Undefined == "undefined"
ConvIds == {"c1", "c2"}
SelectedId == "c1"
DefaultName == <<"New Conversation">>
ErrorPrefix == <<"Something went wrong. Please try again.">>

systemResponseMessage == "system_response_message"
systemIntermediateMessage == "system_intermediate_message"
systemInteractionMessage == "system_interaction_message"
errorType == "error"

\* ------------------------------------------------------------------ text
IsSpace(c) == c = " "

RECURSIVE TrimStart(_)
TrimStart(s) ==
  IF s # <<>> /\ IsSpace(Head(s)) THEN TrimStart(Tail(s)) ELSE s

RECURSIVE TrimEnd(_)
TrimEnd(s) ==
  IF s # <<>> /\ IsSpace(s[Len(s)]) THEN TrimEnd(SubSeq(s, 1, Len(s) - 1)) ELSE s

\* String.prototype.trim
Trim(s) == TrimEnd(TrimStart(s))

\* ------------------------------------------------------- inbound payloads
\* A parsed payload.  kind is the JavaScript kind of the value; the other
\* fields are meaningful for kind = "object".  An absent string field is
\* Undefined; an absent content object has hasContent = FALSE; an absent
\* content.text has hasText = FALSE.
Payload(kind, type, status, id, conv, hasContent, hasText, text, inputType, oauthUrl, redirectUrl, payload) ==
  [kind |-> kind, type |-> type, status |-> status, id |-> id,
   conversation_id |-> conv, parent_id |-> Undefined,
   hasContent |-> hasContent, hasText |-> hasText, text |-> text,
   input_type |-> inputType, oauth_url |-> oauthUrl,
   redirect_url |-> redirectUrl, payload |-> payload]

NonObjects ==
  { Payload(k, Undefined, Undefined, Undefined, Undefined, FALSE, FALSE, <<>>,
            Undefined, Undefined, Undefined, Undefined) :
      k \in {"null", "string"} }

\* {} and {type: 'unknown'}
UntypedObjects ==
  { Payload("object", t, Undefined, Undefined, Undefined, FALSE, FALSE, <<>>,
            Undefined, Undefined, Undefined, Undefined) :
      t \in {Undefined, "unknown"} }

Response(status, conv, hasContent, text) ==
  Payload("object", systemResponseMessage, status, "r1", conv, hasContent, hasContent, text,
          Undefined, Undefined, Undefined, Undefined)

Fragments == { <<"a">>, <<" ", "a">>, <<" ">> }

ResponseEvents ==
  { Response("in_progress", "c1", TRUE, f) : f \in Fragments }
  \cup { Response("in_progress", "c1", FALSE, <<>>),
         Response("complete", "c1", TRUE, <<"a">>) }

Step(id, conv, hasText, text, payload) ==
  Payload("object", systemIntermediateMessage, Undefined, id, conv, TRUE, hasText, text,
          Undefined, Undefined, Undefined, payload)

IntermediateEvents ==
  { Step("s1", "c1", FALSE, <<>>, "p1"),
    Step("s1", "c1", FALSE, <<>>, "p2"),
    Step("s2", "c1", FALSE, <<>>, "p1"),
    Step("s1", "c1", TRUE, <<"a">>, "p1") }

Interaction(inputType, hasText, oauthUrl, redirectUrl) ==
  Payload("object", systemInteractionMessage, Undefined, "i1", "c1", TRUE, hasText, <<"a">>,
          inputType, oauthUrl, redirectUrl, Undefined)

InteractionEvents ==
  { Interaction("oauth_consent", FALSE, "https://o", "https://r"),
    Interaction("oauth_consent", FALSE, Undefined, "https://r"),
    Interaction("oauth_consent", TRUE, Undefined, Undefined),
    Interaction("oauth_consent", FALSE, Undefined, Undefined),
    Interaction("oauth_consent", TRUE, "https://o", Undefined),
    Interaction("oauth_consent", TRUE, "", "https://r"),
    Interaction("text", TRUE, Undefined, Undefined),
    Interaction("text", FALSE, Undefined, Undefined) }

Error(conv, hasContent) ==
  Payload("object", errorType, Undefined, "e1", conv, hasContent, hasContent, <<"a">>,
          Undefined, Undefined, Undefined, Undefined)

ErrorEvents == { Error("c1", TRUE), Error("c1", FALSE) }

\* events of the conversation that is not selected
ForeignEvents == { Error("c2", TRUE) }

Payloads ==
  NonObjects \cup UntypedObjects \cup ResponseEvents \cup IntermediateEvents
    \cup InteractionEvents \cup ErrorEvents \cup ForeignEvents

\* What the server sends over one socket session: payloads of one kind, or
\* one payload of each of two kinds.
Feeds ==
  {"response", "intermediate", "interaction", "error", "malformed",
   "response+intermediate", "response+error", "intermediate+error",
   "response+interaction", "foreign"}

OneResponse == Response("in_progress", "c1", TRUE, <<" ", "a">>)
OneStep == Step("s1", "c1", FALSE, <<>>, "p1")
OneInteraction == Interaction("text", TRUE, Undefined, Undefined)
OneError == Error("c1", TRUE)

FeedPayloads(f) ==
  CASE f = "response" -> ResponseEvents
    [] f = "intermediate" -> IntermediateEvents
    [] f = "interaction" -> InteractionEvents
    [] f = "error" -> ErrorEvents
    [] f = "malformed" ->
         NonObjects \cup UntypedObjects \cup { Response("in_progress", "c1", TRUE, <<"a">>) }
    [] f = "response+intermediate" -> {OneResponse, OneStep}
    [] f = "response+error" -> {OneResponse, OneError}
    [] f = "intermediate+error" -> {OneStep, OneError}
    [] f = "response+interaction" -> {OneResponse, OneInteraction}
    [] f = "foreign" -> ForeignEvents

NoPayload ==
  Payload("none", Undefined, Undefined, Undefined, Undefined, FALSE, FALSE, <<>>,
          Undefined, Undefined, Undefined, Undefined)

\* message?.content?.text || ''
ContentText(message) ==
  IF message.hasContent /\ message.hasText THEN message.text ELSE <<>>

\* --------------------------------------------------------- type guards
IsObject(message) == message.kind = "object"

isSystemResponseMessage(message) ==
  IsObject(message) /\ message.type = systemResponseMessage

isSystemResponseInProgress(message) ==
  isSystemResponseMessage(message) /\ message.status = "in_progress"

isSystemResponseComplete(message) ==
  isSystemResponseMessage(message) /\ message.status = "complete"

isSystemIntermediateMessage(message) ==
  IsObject(message) /\ message.type = systemIntermediateMessage

isSystemInteractionMessage(message) ==
  IsObject(message) /\ message.type = systemInteractionMessage

isErrorMessage(message) ==
  IsObject(message) /\ message.type = errorType

isOAuthConsentMessage(message) ==
  isSystemInteractionMessage(message) /\ message.hasContent
    /\ message.input_type = "oauth_consent"

\* types/websocket.ts: the strict classifier
validateWebSocketMessage(message) ==
  IsObject(message)
    /\ message.type \in {systemResponseMessage, systemIntermediateMessage,
                         systemInteractionMessage, errorType}

\* websocketMessageProcessor.ts: message && typeof message === 'object'
\* (typeof null === 'object', but null is falsy)
validateWebSocketMessageProcessor(message) == IsObject(message)

\* a string field that || does not skip: present and not ''
Truthy(v) == v \notin { Undefined, "" }

\* oauth_url || redirect_url || text, as a truth value
HasOAuthUrl(message) ==
  message.hasContent
    /\ (Truthy(message.oauth_url)
          \/ Truthy(message.redirect_url)
          \/ ContentText(message) # <<>>)

\* part_001:727: oauth_url || redirect_url || text (<<>> when none)
FirstAddress(message) ==
  IF ~message.hasContent THEN <<>>
  ELSE IF Truthy(message.oauth_url) THEN <<message.oauth_url>>
  ELSE IF Truthy(message.redirect_url) THEN <<message.redirect_url>>
  ELSE ContentText(message)

\* the address with redirect_url taken before oauth_url
extractOAuthUrl_RedirectFirst(message) ==
  IF ~isOAuthConsentMessage(message) THEN <<>>
  ELSE IF Truthy(message.redirect_url) THEN <<message.redirect_url>>
  ELSE IF Truthy(message.oauth_url) THEN <<message.oauth_url>>
  ELSE ContentText(message)

\* <<>> stands for null
extractOAuthUrl(message) ==
  IF ~isOAuthConsentMessage(message) THEN <<>>
  ELSE IF Truthy(message.oauth_url) THEN <<message.oauth_url>>
  ELSE IF Truthy(message.redirect_url) THEN <<message.redirect_url>>
  ELSE ContentText(message)

shouldAppendResponseContent(message) ==
  isSystemResponseInProgress(message) /\ Trim(ContentText(message)) # <<>>

\* ------------------------------------------------------------ the store
Message(role, id, parentId, content, steps, interactions, errors) ==
  [role |-> role, id |-> id, parentId |-> parentId, content |-> content,
   intermediateSteps |-> steps, humanInteractionMessages |-> interactions,
   errorMessages |-> errors]

UserMessage(text) == Message("user", "uuid", Undefined, text, <<>>, <<>>, <<>>)

Conversation(id, name, messages) == [id |-> id, name |-> name, messages |-> messages]

\* { ...message, index }
WithIndex(message, index) == [ev |-> message, index |-> index]

\* the test that never finds an assistant message to update
IsLastAssistant_Never(messages) == FALSE

IsLastAssistant(messages) ==
  Len(messages) > 0 /\ messages[Len(messages)].role = "assistant"

\* the update without the test on the position: every assistant message is replaced
ReplaceLast_EveryAssistant(messages, m) ==
  [i \in 1..Len(messages) |-> IF messages[i].role = "assistant" THEN m ELSE messages[i]]

\* messages.map((m, idx) => idx === messages.length - 1 ? f(m) : m)
ReplaceLast(messages, m) == [messages EXCEPT ![Len(messages)] = m]

\* conversations.map(c => c.id === updated.id ? updated : c)
ReplaceConversation(convs, updated) ==
  [i \in 1..Len(convs) |-> IF convs[i].id = updated.id THEN updated ELSE convs[i]]

\* conversations.find(c => c.id === id): the index of the first match, 0 if none
RECURSIVE FindFrom(_, _, _)
FindFrom(convs, id, i) ==
  IF i > Len(convs) THEN 0
  ELSE IF convs[i].id = id THEN i
  ELSE FindFrom(convs, id, i + 1)

FindConversation(convs, id) == FindFrom(convs, id, 1)

\* ------------------------------------------- helpers of utils/app/helper
\* the position of the step with this identifier, 0 if none
RECURSIVE StepPos(_, _, _)
StepPos(steps, id, i) ==
  IF i > Len(steps) THEN 0
  ELSE IF steps[i].ev.id = id THEN i
  ELSE StepPos(steps, id, i + 1)

\* Merge by identifier: a step already present is updated in place and
\* keeps its position and index; a new one is appended.
processIntermediateMessage(existingSteps, newMessage) ==
  LET pos == StepPos(existingSteps, newMessage.ev.id, 1) IN
    IF pos # 0
      THEN [existingSteps EXCEPT ![pos] = WithIndex(newMessage.ev, existingSteps[pos].index)]
      ELSE Append(existingSteps, newMessage)

createAssistantMessage(id, parentId, content, steps, interactions, errors) ==
  Message("assistant", id, parentId, content, steps, interactions, errors)

\* concatenation, no separator
appendToAssistantContent(existing, incoming) == existing \o incoming

\* content.length > 30 ? content.substring(0, 30) + '...' : content
TruncateTitle(content) ==
  IF Len(content) > TitleLen
    THEN SubSeq(content, 1, TitleLen) \o <<".", ".", ".">>
    ELSE content

\* The display name is derived once, from the first user message.
updateConversationTitle(conv) ==
  IF conv.name = DefaultName /\ Len(conv.messages) > 0
       /\ conv.messages[1].role = "user"
    THEN [conv EXCEPT !.name = TruncateTitle(conv.messages[1].content)]
    ELSE conv

\* ------------------------------------ utils/app/websocketMessageProcessor
validateConversationState(conversations, selectedConversation) ==
  selectedConversation.id # Undefined

\* lines 102-106: message.content.text = 'Something went wrong...' + details
RewriteError(message) ==
  [message EXCEPT !.hasText = TRUE, !.text = ErrorPrefix \o ContentText(message)]

\* the update with the step pushed instead of merged by identifier
UpdateLastAssistant_PushesStep(msg, message) ==
  [msg EXCEPT
     !.content =
        IF message.type = systemResponseMessage THEN @ \o ContentText(message) ELSE @,
     !.intermediateSteps =
        IF message.type = systemIntermediateMessage
          THEN Append(@, WithIndex(message, Len(@))) ELSE @,
     !.humanInteractionMessages =
        IF message.type = systemInteractionMessage THEN Append(@, message) ELSE @,
     !.errorMessages =
        IF message.type = errorType THEN Append(@, message) ELSE @]

\* lines 117-159: the trailing assistant message, updated
UpdateLastAssistant(msg, message) ==
  LET updatedContent ==
        IF message.type = systemResponseMessage
          THEN msg.content \o ContentText(message)
          ELSE msg.content
      index == Len(msg.intermediateSteps)
      processedIntermediateSteps ==
        IF message.type = systemIntermediateMessage
          THEN processIntermediateMessage(msg.intermediateSteps, WithIndex(message, index))
          ELSE msg.intermediateSteps
  IN [msg EXCEPT
        !.content = updatedContent,
        !.intermediateSteps = processedIntermediateSteps,
        !.humanInteractionMessages =
           IF message.type = systemInteractionMessage THEN Append(@, message) ELSE @,
        !.errorMessages =
           IF message.type = errorType THEN Append(@, message) ELSE @]

\* lines 137-147: msg.humanInteractionMessages.push / msg.errorMessages.push
\* act on the message object of the conversation passed in
PushedInPlace(msg, message) ==
  [msg EXCEPT
     !.humanInteractionMessages =
        IF message.type = systemInteractionMessage THEN Append(@, message) ELSE @,
     !.errorMessages =
        IF message.type = errorType THEN Append(@, message) ELSE @]

\* lines 160-178: a new assistant message
NewAssistantMessage(message) ==
  Message("assistant", message.id, message.parent_id, ContentText(message),
          IF message.type = systemIntermediateMessage THEN <<WithIndex(message, 0)>> ELSE <<>>,
          IF message.type = systemInteractionMessage THEN <<message>> ELSE <<>>,
          IF message.type = errorType THEN <<message>> ELSE <<>>)

NullResult(selectedConversation, conversations) ==
  [status |-> "null", updatedSelectedConversation |-> selectedConversation,
   updatedConversations |-> conversations, argument |-> selectedConversation,
   shouldStopStreaming |-> FALSE]

\* The result of processWebSocketMessage.  status is "null" (returned null),
\* "threw" (a TypeError left the function) or "ok"; argument is the
\* selectedConversation argument as the call leaves it.
processWebSocketMessage(message0, conversations, selectedConversation, enableSteps) ==
  IF ~validateWebSocketMessageProcessor(message0)
    THEN NullResult(selectedConversation, conversations)
  ELSE IF ~validateConversationState(conversations, selectedConversation)
    THEN NullResult(selectedConversation, conversations)
  ELSE IF ~enableSteps /\ message0.type = systemIntermediateMessage
    THEN NullResult(selectedConversation, conversations)
  ELSE IF message0.type = errorType /\ ~message0.hasContent
    THEN [NullResult(selectedConversation, conversations) EXCEPT !.status = "threw"]
  ELSE
    LET message == IF message0.type = errorType THEN RewriteError(message0) ELSE message0
        messages == selectedConversation.messages
        updatedMessages ==
          IF IsLastAssistant(messages)
            THEN ReplaceLast(messages, UpdateLastAssistant(messages[Len(messages)], message))
            ELSE Append(messages, NewAssistantMessage(message))
        argumentMessages ==
          IF IsLastAssistant(messages)
            THEN ReplaceLast(messages, PushedInPlace(messages[Len(messages)], message))
            ELSE messages
        updatedSelectedConversation ==
          [selectedConversation EXCEPT !.messages = updatedMessages]
        mapped == ReplaceConversation(conversations, updatedSelectedConversation)
    IN [status |-> "ok",
        updatedSelectedConversation |-> updatedSelectedConversation,
        updatedConversations |->
          IF Len(mapped) = 0 THEN <<updatedSelectedConversation>> ELSE mapped,
        argument |-> [selectedConversation EXCEPT !.messages = argumentMessages],
        shouldStopStreaming |-> message.status = "complete"]

\* ------------------------------------------- the inline engine (part_001)
processSystemResponseMessage(message, messages) ==
  IF ~isSystemResponseMessage(message) \/ ~shouldAppendResponseContent(message)
    THEN messages
  ELSE
    LET incomingText == Trim(ContentText(message)) IN
      IF IsLastAssistant(messages)
        THEN ReplaceLast(messages,
               [messages[Len(messages)] EXCEPT
                  !.content = appendToAssistantContent(@, incomingText)])
        ELSE Append(messages,
               createAssistantMessage(message.id, message.parent_id, incomingText,
                                      <<>>, <<>>, <<>>))

\* the step given index 0 whatever the number of steps present
processIntermediateStepMessage_IndexZero(message, messages) ==
  IF ~isSystemIntermediateMessage(message) THEN messages
  ELSE IF ~IsLastAssistant(messages)
    THEN Append(messages,
           createAssistantMessage(message.id, message.parent_id, <<>>,
                                  <<WithIndex(message, 0)>>, <<>>, <<>>))
  ELSE
    LET lastSteps == messages[Len(messages)].intermediateSteps
        mergedSteps == processIntermediateMessage(lastSteps, WithIndex(message, 0))
    IN ReplaceLast(messages,
         [messages[Len(messages)] EXCEPT !.intermediateSteps = mergedSteps])

processIntermediateStepMessage(message, messages) ==
  IF ~isSystemIntermediateMessage(message) THEN messages
  ELSE IF ~IsLastAssistant(messages)
    THEN Append(messages,
           createAssistantMessage(message.id, message.parent_id, <<>>,
                                  <<WithIndex(message, 0)>>, <<>>, <<>>))
  ELSE
    LET lastSteps == messages[Len(messages)].intermediateSteps
        mergedSteps == processIntermediateMessage(lastSteps, WithIndex(message, Len(lastSteps)))
    IN ReplaceLast(messages,
         [messages[Len(messages)] EXCEPT !.intermediateSteps = mergedSteps])

processErrorMessage(message, messages) ==
  IF ~isErrorMessage(message) THEN messages
  ELSE IF IsLastAssistant(messages)
    THEN ReplaceLast(messages,
           [messages[Len(messages)] EXCEPT !.errorMessages = Append(@, message)])
    ELSE Append(messages,
           createAssistantMessage(message.id, message.parent_id, <<>>,
                                  <<>>, <<>>, <<message>>))

\* part_001:1303-1307
ProcessInline(message, messages) ==
  processErrorMessage(message,
    processIntermediateStepMessage(message,
      processSystemResponseMessage(message, messages)))

\* ----------------------------------------------------------------- state
VARIABLES
  variant,                 \* which chat component is mounted
  feed,                    \* what the server sends in this session
  conversations,           \* HomeContext state: the conversation list
  selectedConversation,    \* HomeContext state: the selected conversation
  view,                    \* what the socket's onmessage handler reads: the render
                           \* closure its connect() captured ("processor"), or
                           \* conversationsRef / selectedConversationRef ("inline")
  enableIntermediateSteps, \* sessionStorage 'enableIntermediateSteps' # 'false'
  loading,                 \* HomeContext state
  messageIsStreaming,      \* HomeContext state
  stopTimers,              \* pending setTimeout(..., 200) that clear messageIsStreaming
  modalOpen,               \* InteractionModal state
  interactionMessage,      \* InteractionModal state
  last,                    \* the inbound payload handled by the latest step, if any:
                           \* ev the payload, outcome how the handler left, pre / post
                           \* the log handed to and returned by the reconciliation,
                           \* changed whether the HomeContext store differs after it
  isWebSocketMode,         \* useWebSocketTransport state
  isConnected,             \* useWebSocketTransport state
  isConnecting,            \* useWebSocketTransport state
  connectSeesConnecting,   \* isConnecting as captured by the current connect callback
  effectDue,               \* the auto-connect effect is about to call connect()
  webSocketRef,            \* webSocketRef.current: a socket, 0 for null
  reconnectTimeoutRef,     \* reconnectTimeoutRef.current: the socket whose close set it, 0 for null
  sockets,                 \* every WebSocket the session created and has not forgotten
  messageQueue,            \* messageQueueRef.current
  wire,                    \* the frames written with ws.send, oldest first
  reconnects,              \* what the session did on its own since the connection was lost
  sendOp,                  \* the handleSend call waiting for transport.connect(), if any
  lastSend,                \* the latest sendMessage call and what it returned, if any
  http                     \* the handleSend call reading a streamed HTTP response, if any:
                           \* the locals of its decode loop and the chunks not yet read

cvars ==
  <<variant, feed, conversations, selectedConversation, view, enableIntermediateSteps,
    loading, messageIsStreaming, stopTimers, modalOpen, interactionMessage, last>>

tvars ==
  <<isWebSocketMode, isConnected, isConnecting, connectSeesConnecting, effectDue,
    webSocketRef, reconnectTimeoutRef, sockets, messageQueue, wire, reconnects, sendOp,
    lastSend>>

svars == <<http>>

vars ==
  <<variant, feed, conversations, selectedConversation, view, enableIntermediateSteps,
    loading, messageIsStreaming, stopTimers, modalOpen, interactionMessage, last,
    isWebSocketMode, isConnected, isConnecting, connectSeesConnecting, effectDue,
    webSocketRef, reconnectTimeoutRef, sockets, messageQueue, wire, reconnects, sendOp,
    lastSend, http>>

\* no inbound payload was handled by the latest step
NoLast ==
  [ev |-> NoPayload, outcome |-> "none", target |-> Undefined,
   pre |-> <<>>, post |-> <<>>, changed |-> FALSE, opened |-> <<>>, toast |-> FALSE]

Store(convs, selected) == [conversations |-> convs, selectedConversation |-> selected]

\* the log of conversation id in the conversation list (empty if absent)
LogOf(convs, id) ==
  IF FindConversation(convs, id) = 0 THEN <<>>
  ELSE convs[FindConversation(convs, id)].messages

\* the duplex session (useWebSocketTransport)
maxRetries == 3
retryDelay == 1000

\* retryDelay * Math.pow(2, retryCount)
ReconnectDelay(retryCount) == retryDelay * 2^retryCount

SocketIds == 1..MaxSockets

\* A WebSocket created by connect(retryCount).  st is "free" (no such socket),
\* "connecting", "open", "closing" (close() was called, onclose not yet
\* delivered) or "closed" (onclose delivered, its reconnect timer pending).
\* The connectTimeout is pending while the socket is connecting.  mode is
\* isWebSocketMode as the creating connect callback captured it, awaited
\* whether handleSend awaits the promise of this connect() call, code the
\* close code onclose will carry, cancelled whether disconnect() was called
\* while the socket was connecting.
Socket(st, retry, mode, awaited, code, cancelled) ==
  [st |-> st, retry |-> retry, mode |-> mode, awaited |-> awaited, code |-> code,
   cancelled |-> cancelled]

NoSocket == Socket("free", 0, FALSE, FALSE, 0, FALSE)

\* recovering: the connection was lost by an unexpected close; attempts: the
\* connections the session has started on its own since; notified: the
\* toast of line 176 was shown; userClosed: disconnect() closed the open
\* socket and the user has not connected or toggled the mode since; code:
\* the code of the latest close event, 0 if none; delay: the delay of the
\* reconnect timer that close event set, 0 if it set none.
NoReconnects ==
  [recovering |-> FALSE, attempts |-> 0, notified |-> FALSE, userClosed |-> FALSE,
   code |-> 0, delay |-> 0]

NoSendOp == [phase |-> "none", pre |-> <<>>, text |-> <<>>]

NoSend == [message |-> Undefined, state |-> "none", returned |-> FALSE, queued |-> FALSE,
           written |-> FALSE]

\* the session of a conversation whose socket is open and idle
SessionOpen ==
  /\ isWebSocketMode = TRUE
  /\ isConnected = TRUE
  /\ isConnecting = FALSE
  /\ connectSeesConnecting = FALSE
  /\ effectDue = FALSE
  /\ webSocketRef = 1
  /\ reconnectTimeoutRef = 0
  /\ sockets = [s \in SocketIds |->
                  IF s = 1 THEN Socket("open", 0, TRUE, FALSE, 0, FALSE) ELSE NoSocket]
  /\ messageQueue = <<>>
  /\ wire = <<>>
  /\ reconnects = NoReconnects
  /\ sendOp = NoSendOp
  /\ lastSend = NoSend

\* the locals of the loop when it is entered (lines 301-305)
LoopStart(conv) ==
  [partialIntermediateStep |-> <<>>, text |-> <<>>, isFirst |-> TRUE, raw |-> <<>>,
   updatedConversation |-> conv]

\* no handleSend call is reading a response; currentMessage <<>> stands
\* for the state before setCurrentMessage was called, sends counts the
\* handleSend calls made, toast tells that the last call raised toast.error
NoHttp ==
  [phase |-> "idle", sends |-> 0, message |-> <<>>, chunks |-> <<>>, read |-> <<>>,
   loop |-> LoopStart(Conversation(Undefined, <<>>, <<>>)), currentMessage |-> <<>>,
   toast |-> FALSE]

WithinBounds(messages) ==
  /\ Len(messages) <= MaxMessages
  /\ \A i \in 1..Len(messages) :
       /\ Len(messages[i].content) <= MaxContent
       /\ Len(messages[i].humanInteractionMessages) <= MaxRecords
       /\ Len(messages[i].errorMessages) <= MaxRecords

Init ==
  /\ variant \in {"processor", "inline"}
  /\ feed \in Feeds
  /\ conversations = << Conversation("c1", DefaultName, <<>>),
                        Conversation("c2", DefaultName, <<>>) >>
  /\ selectedConversation = Conversation(SelectedId, DefaultName, <<>>)
  /\ view = Store(conversations, selectedConversation)
  /\ enableIntermediateSteps = TRUE
  /\ loading = FALSE
  /\ messageIsStreaming = FALSE
  /\ stopTimers = 0
  /\ modalOpen = FALSE
  /\ interactionMessage = NoPayload
  /\ last = NoLast
  /\ SessionOpen
  /\ http = NoHttp

\* ---------------------------------------- Chat.handleWebSocketMessage
\* the handler without the early return of the oauth_consent branch
OutcomeOf_NoOAuthReturn(message, r) ==
  IF ~validateWebSocketMessageProcessor(message) THEN "rejected"
  ELSE IF r.status = "threw" THEN "threw"
  ELSE IF r.status = "null" THEN "suppressed"
  ELSE "applied"

\* part_001:700-798, the component built on processWebSocketMessage
OutcomeOf(message, r) ==
  IF ~validateWebSocketMessageProcessor(message) THEN "rejected"
  ELSE IF message.type = systemInteractionMessage /\ message.hasContent
          /\ message.input_type = "oauth_consent"
    THEN (IF HasOAuthUrl(message) THEN "redirect" ELSE "oauth-no-url")
  ELSE IF r.status = "threw" THEN "threw"
  ELSE IF r.status = "null" THEN "suppressed"
  ELSE "applied"

HandleWebSocketMessage(message) ==
  /\ variant = "processor"
  /\ LET r == processWebSocketMessage(message, view.conversations,
                                      view.selectedConversation, enableIntermediateSteps)
         outcome == OutcomeOf(message, r)
         applied == outcome = "applied"
         stop == applied /\ message.status = "complete"
     IN
       /\ applied => WithinBounds(r.updatedSelectedConversation.messages)
       /\ stop => stopTimers < MaxTimers
       /\ conversations' = IF applied THEN r.updatedConversations ELSE conversations
       /\ selectedConversation' =
            IF applied THEN r.updatedSelectedConversation ELSE selectedConversation
       /\ view' = IF applied THEN [view EXCEPT !.selectedConversation = r.argument] ELSE view
       /\ loading' = IF outcome \in {"applied", "threw"} THEN FALSE ELSE loading
       /\ messageIsStreaming' = IF outcome = "threw" THEN FALSE ELSE messageIsStreaming
       /\ stopTimers' = IF stop THEN stopTimers + 1 ELSE stopTimers
       /\ last' = [ev |-> message, outcome |-> outcome,
                   target |-> view.selectedConversation.id,
                   pre |-> view.selectedConversation.messages,
                   post |-> IF applied THEN r.updatedSelectedConversation.messages
                            ELSE view.selectedConversation.messages,
                   changed |-> Store(conversations', selectedConversation')
                                 # Store(conversations, selectedConversation),
                   opened |-> IF outcome = "redirect" THEN FirstAddress(message) ELSE <<>>,
                   \* toast.error('OAuth URL not found in message content'), line 744
                   toast |-> outcome = "oauth-no-url"]
  /\ UNCHANGED <<variant, feed, enableIntermediateSteps, modalOpen, interactionMessage>>
  /\ UNCHANGED <<tvars, svars>>

\* the handler without the test of the intermediate-steps toggle
OutcomeInline_StepsAlwaysOn(message) ==
  IF ~validateWebSocketMessage(message) THEN "rejected"
  ELSE IF isSystemInteractionMessage(message)
    THEN (IF message.hasContent /\ message.input_type = "oauth_consent"
            THEN (IF extractOAuthUrl(message) # <<>> THEN "redirect" ELSE "oauth-no-url")
            ELSE "modal")
  ELSE IF isSystemResponseMessage(message) /\ message.status = "complete" THEN "complete"
  ELSE IF FindConversation(view.conversations, message.conversation_id) = 0 THEN "no-target"
  ELSE "applied"

\* part_001:1263-1322, the component with the inline engine
OutcomeInline(message) ==
  IF ~validateWebSocketMessage(message) THEN "rejected"
  ELSE IF isSystemInteractionMessage(message)
    THEN (IF message.hasContent /\ message.input_type = "oauth_consent"
            THEN (IF extractOAuthUrl(message) # <<>> THEN "redirect" ELSE "oauth-no-url")
            ELSE "modal")
  ELSE IF ~enableIntermediateSteps /\ isSystemIntermediateMessage(message) THEN "suppressed"
  ELSE IF isSystemResponseMessage(message) /\ message.status = "complete" THEN "complete"
  ELSE IF FindConversation(view.conversations, message.conversation_id) = 0 THEN "no-target"
  ELSE "applied"

HandleWebSocketMessageInline(message) ==
  /\ variant = "inline"
  /\ LET outcome == OutcomeInline(message)
         applied == outcome = "applied"
         stop == outcome # "rejected" /\ message.status = "complete"
         currentConversations == view.conversations
         currentSelectedConversation == view.selectedConversation
         targetConversation ==
           currentConversations[FindConversation(currentConversations, message.conversation_id)]
         updatedConversation ==
           updateConversationTitle(
             [targetConversation EXCEPT
                !.messages = ProcessInline(message, targetConversation.messages)])
         updatedConversations == ReplaceConversation(currentConversations, updatedConversation)
         isSelected == currentSelectedConversation.id = updatedConversation.id
     IN
       /\ applied => WithinBounds(updatedConversation.messages)
       /\ stop => stopTimers < MaxTimers
       /\ conversations' = IF applied THEN updatedConversations ELSE conversations
       /\ selectedConversation' =
            IF applied /\ isSelected THEN updatedConversation ELSE selectedConversation
       /\ view' =
            IF applied
              THEN Store(updatedConversations,
                         IF isSelected THEN updatedConversation
                         ELSE currentSelectedConversation)
              ELSE view
       /\ loading' = IF outcome # "rejected" THEN FALSE ELSE loading
       /\ stopTimers' = IF stop THEN stopTimers + 1 ELSE stopTimers
       /\ modalOpen' = IF outcome = "modal" THEN TRUE ELSE modalOpen
       /\ interactionMessage' = IF outcome = "modal" THEN message ELSE interactionMessage
       /\ last' = [ev |-> message, outcome |-> outcome,
                   target |-> message.conversation_id,
                   pre |-> LogOf(currentConversations, message.conversation_id),
                   post |-> IF applied THEN updatedConversation.messages
                            ELSE LogOf(currentConversations, message.conversation_id),
                   changed |-> Store(conversations', selectedConversation')
                                 # Store(conversations, selectedConversation),
                   opened |-> IF outcome = "redirect" THEN extractOAuthUrl(message) ELSE <<>>,
                   \* handleOAuthConsent (lines 1105-1125) calls no toast
                   toast |-> FALSE]
  /\ UNCHANGED <<variant, feed, enableIntermediateSteps, messageIsStreaming>>
  /\ UNCHANGED <<tvars, svars>>

\* ------------------------------------------------------- the other steps
UserTexts == { <<"a">> }

\* handleSend on the duplex path with the socket open (part_001:109-185 and
\* 1325-1395): the user message replaces the last deleteCount messages of
\* the selected conversation.
HandleSend(text, deleteCount) ==
  /\ deleteCount <= Len(selectedConversation.messages)
  /\ LET kept == SubSeq(selectedConversation.messages, 1,
                        Len(selectedConversation.messages) - deleteCount)
         updatedConversation ==
           [selectedConversation EXCEPT !.messages = Append(kept, UserMessage(text))]
         base == IF variant = "processor" THEN conversations ELSE view.conversations
         mapped == ReplaceConversation(base, updatedConversation)
     IN
       /\ WithinBounds(updatedConversation.messages)
       /\ selectedConversation' = updatedConversation
       /\ conversations' =
            IF variant = "processor" /\ Len(mapped) = 0
              THEN <<updatedConversation>> ELSE mapped
  /\ loading' = TRUE
  /\ messageIsStreaming' = TRUE
  /\ last' = NoLast
  /\ UNCHANGED <<variant, feed, view, enableIntermediateSteps, stopTimers, modalOpen,
                 interactionMessage>>
  /\ UNCHANGED <<tvars, svars>>

\* The handler's view catches up with the rendered state: a connect() made
\* from the current render binds a new onmessage closure (part_000:53-151,
\* 206); the effects of part_001:964-971 copy the state into the refs.
BindHandlerView ==
  /\ view # Store(conversations, selectedConversation)
  /\ view' = Store(conversations, selectedConversation)
  /\ last' = NoLast
  /\ UNCHANGED <<variant, feed, conversations, selectedConversation, enableIntermediateSteps,
                 loading, messageIsStreaming, stopTimers, modalOpen, interactionMessage>>
  /\ UNCHANGED <<tvars, svars>>

\* the settings toggle stored in sessionStorage 'enableIntermediateSteps'
SetEnableIntermediateSteps(enabled) ==
  /\ enabled # enableIntermediateSteps
  /\ enableIntermediateSteps' = enabled
  /\ last' = NoLast
  /\ UNCHANGED <<variant, feed, conversations, selectedConversation, view, loading,
                 messageIsStreaming, stopTimers, modalOpen, interactionMessage>>
  /\ UNCHANGED <<tvars, svars>>

\* setTimeout(() => homeDispatch({ field: 'messageIsStreaming', value: false }), 200)
StopStreamingTimer ==
  /\ stopTimers > 0
  /\ stopTimers' = stopTimers - 1
  /\ messageIsStreaming' = FALSE
  /\ last' = NoLast
  /\ UNCHANGED <<variant, feed, conversations, selectedConversation, view,
                 enableIntermediateSteps, loading, modalOpen, interactionMessage>>
  /\ UNCHANGED <<tvars, svars>>

\* InteractionModal onClose
CloseModal ==
  /\ modalOpen
  /\ modalOpen' = FALSE
  /\ last' = NoLast
  /\ UNCHANGED <<variant, feed, conversations, selectedConversation, view,
                 enableIntermediateSteps, loading, messageIsStreaming, stopTimers,
                 interactionMessage>>
  /\ UNCHANGED <<tvars, svars>>

Send == \E text \in UserTexts, deleteCount \in 0..1 : HandleSend(text, deleteCount)

Next ==
  \/ \E message \in FeedPayloads(feed) : HandleWebSocketMessage(message)
  \/ \E message \in FeedPayloads(feed) : HandleWebSocketMessageInline(message)
  \/ Send
  \/ BindHandlerView
  \/ \E enabled \in BOOLEAN : SetEnableIntermediateSteps(enabled)
  \/ StopStreamingTimer
  \/ CloseModal

Spec == Init /\ [][Next]_vars

\* ------------------------------------------- useWebSocketTransport
OutboundMessages == { "o1", "o2" }

Frame(socket, message, queued) == [socket |-> socket, message |-> message, queued |-> queued]

\* draining the queue from its tail (pop() in place of shift())
Flush_LastFirst(queue, s) ==
  [i \in 1..Len(queue) |-> Frame(s, queue[Len(queue) + 1 - i], TRUE)]

\* the frames ws.send writes when the queue is drained on socket s
Flush(queue, s) == [i \in 1..Len(queue) |-> Frame(s, queue[i], TRUE)]

HasFreeSlot(socks) == \E s \in SocketIds : socks[s].st = "free"

FreeSlot(socks) ==
  CHOOSE s \in SocketIds :
    /\ socks[s].st = "free"
    /\ \A t \in SocketIds : t < s => socks[t].st # "free"

\* connect(): lines 57-72, with isConnecting as the callback captured it
ConnectResult(seesConnecting) ==
  IF webSocketRef # 0 /\ sockets[webSocketRef].st = "open" THEN "already"
  ELSE IF seesConnecting THEN "busy"
  ELSE "started"

\* new WebSocket(wsUrl) with its connectTimeout armed (lines 105-115)
Started(socks, retry, mode, awaited) ==
  [socks EXCEPT ![FreeSlot(socks)] = Socket("connecting", retry, mode, awaited, 0, FALSE)]

\* the auto-connect effect runs after a render in which one of its
\* dependencies changed, and calls connect() when its condition holds
EffectCondition(mode, connected, connecting) == mode /\ ~connected /\ ~connecting

EffectAfter(mode, connected, connecting, rebound) ==
  IF rebound \/ <<mode, connected, connecting>> # <<isWebSocketMode, isConnected, isConnecting>>
    THEN EffectCondition(mode, connected, connecting)
    ELSE effectDue

\* a connection attempt the session made on its own
Attempted(r) == IF r.recovering THEN [r EXCEPT !.attempts = @ + 1] ELSE r

AttemptAllowed == reconnects.attempts <= maxRetries

\* What happens to the session in one behaviour, besides the socket opening
\* and failing to open: the server drops it ("unattended"), the user toggles
\* the mode and disconnects ("manual"), the user answers interaction
\* requests ("outbound"), the user sends chat messages ("chat").
TransportFeeds == { "unattended", "manual", "outbound", "chat" }

FeedActions(f) ==
  CASE f = "unattended" -> { "RemoteClose", "ConnectTimeout", "ReconnectTimer", "RebindConnect" }
    [] f = "manual" -> { "Disconnect", "SetWebSocketMode", "ReconnectTimer" }
    [] f = "outbound" -> { "SendMessage", "Disconnect", "ReconnectTimer" }
    [] f = "chat" -> { "HandleSendDuplex", "RemoteClose", "RemoteClosing", "ConnectTimeout",
                       "RebindConnect" }
    [] OTHER -> {}

\* effects run before the next event is handled
Ready == ~effectDue

Allowed(action) == Ready /\ action \in FeedActions(feed)

\* lines 306-312
AutoConnect ==
  /\ effectDue
  /\ LET started == ConnectResult(connectSeesConnecting) = "started" IN
       /\ started => HasFreeSlot(sockets) /\ AttemptAllowed
       /\ sockets' = IF started THEN Started(sockets, 0, isWebSocketMode, FALSE) ELSE sockets
       /\ isConnecting' = (started \/ isConnecting)
       /\ reconnects' = IF started THEN Attempted(reconnects) ELSE reconnects
  /\ effectDue' = FALSE
  /\ lastSend' = NoSend
  /\ UNCHANGED <<isWebSocketMode, isConnected, connectSeesConnecting, webSocketRef,
                 reconnectTimeoutRef, messageQueue, wire, sendOp>>
  /\ UNCHANGED <<cvars, svars>>

\* lines 171-174: the reconnect timer set by the close of socket s fires and
\* calls connect(retryCount + 1) of the callback that created s
ReconnectTimer(s) ==
  /\ Allowed("ReconnectTimer")
  /\ sockets[s].st = "closed"
  /\ LET started == ConnectResult(FALSE) = "started"
         freed == [sockets EXCEPT ![s] = NoSocket]
     IN
       /\ started => AttemptAllowed
       /\ sockets' = IF started
                       THEN Started(freed, sockets[s].retry + 1, sockets[s].mode, FALSE)
                       ELSE freed
       /\ isConnecting' = (started \/ isConnecting)
       /\ reconnects' = IF started THEN Attempted(reconnects) ELSE reconnects
       /\ effectDue' = EffectAfter(isWebSocketMode, isConnected, started \/ isConnecting, FALSE)
  /\ reconnectTimeoutRef' = IF reconnectTimeoutRef = s THEN 0 ELSE reconnectTimeoutRef
  /\ lastSend' = NoSend
  /\ UNCHANGED <<isWebSocketMode, isConnected, connectSeesConnecting, webSocketRef,
                 messageQueue, wire, sendOp>>
  /\ UNCHANGED <<cvars, svars>>

\* handleSend(message, 1) as the retry calls it: the callback is the one of
\* the render that started the send, so the log it edits is the log of that
\* render (part_001:115-124)
RetryLog(pre, text) ==
  Append(IF Len(pre) = 0 THEN pre ELSE SubSeq(pre, 1, Len(pre) - 1), UserMessage(text))

\* part_001:150-162: connect() resolved true for the waiting handleSend.  The
\* retry runs in the same callback, whose transport.isConnected is still
\* false: it edits the log, calls connect() again, gets true at once (the
\* socket is open) and retries again.
ResendStarts == sendOp.phase = "awaiting"

Resent == [sendOp EXCEPT !.phase = "looping"]

\* lines 117-141
OnOpen(s) ==
  /\ Ready
  /\ sockets[s].st = "connecting"
  /\ sockets' = [sockets EXCEPT ![s] = Socket("open", @.retry, @.mode, FALSE, 0, @.cancelled)]
  /\ webSocketRef' = s
  /\ isConnected' = TRUE
  /\ isConnecting' = FALSE
  /\ wire' = wire \o Flush(messageQueue, s)
  /\ messageQueue' = <<>>
  /\ reconnects' = [NoReconnects EXCEPT !.userClosed = reconnects.userClosed]
  /\ effectDue' = EffectAfter(isWebSocketMode, TRUE, FALSE, FALSE)
  /\ lastSend' = NoSend
  /\ IF sockets[s].awaited /\ ResendStarts
       THEN /\ sendOp' = Resent
            /\ selectedConversation' =
                 [selectedConversation EXCEPT !.messages = RetryLog(sendOp.pre, sendOp.text)]
            /\ loading' = TRUE
            /\ messageIsStreaming' = TRUE
       ELSE UNCHANGED <<sendOp, selectedConversation, loading, messageIsStreaming>>
  /\ UNCHANGED <<isWebSocketMode, connectSeesConnecting, reconnectTimeoutRef>>
  /\ UNCHANGED <<http, variant, feed, conversations, view, enableIntermediateSteps, stopTimers,
                 modalOpen, interactionMessage, last>>

\* the promise of a failed connect() left unresolved
SendGivenUp_Never(awaited) == FALSE

\* part_001:151-156: connect() resolved false for the waiting handleSend
SendGivenUp(awaited) == awaited /\ sendOp.phase = "awaiting"

\* lines 153-178, the close event of socket s with this code
OnClose(s, code) ==
  LET retry == code # 1000 /\ sockets[s].mode /\ sockets[s].retry < maxRetries
      failed == SendGivenUp(sockets[s].awaited)
  IN
    /\ sockets' = [sockets EXCEPT ![s] =
                     IF retry THEN Socket("closed", @.retry, @.mode, FALSE, 0, @.cancelled)
                     ELSE NoSocket]
    /\ webSocketRef' = 0
    /\ isConnected' = FALSE
    /\ isConnecting' = FALSE
    /\ reconnectTimeoutRef' = IF retry THEN s ELSE reconnectTimeoutRef
    /\ reconnects' =
         [reconnects EXCEPT
            !.recovering = @ \/ (code # 1000 /\ isWebSocketMode),
            !.notified = @ \/ (code # 1000 /\ ~retry),
            !.code = code,
            !.delay = IF retry THEN ReconnectDelay(sockets[s].retry) ELSE 0]
    /\ effectDue' = EffectAfter(isWebSocketMode, FALSE, FALSE, FALSE)
    /\ sendOp' = IF failed THEN NoSendOp ELSE sendOp
    \* handleConnectionChange(false) of part_001:801-812
    /\ loading' = FALSE
    /\ messageIsStreaming' = FALSE
    /\ lastSend' = NoSend
    /\ UNCHANGED <<isWebSocketMode, connectSeesConnecting, messageQueue, wire>>
    /\ UNCHANGED <<http, variant, feed, conversations, selectedConversation, view,
                   enableIntermediateSteps, stopTimers, modalOpen, interactionMessage, last>>

\* the server closes an open socket, normally or not
RemoteClose(s, code) ==
  /\ Allowed("RemoteClose")
  /\ sockets[s].st = "open"
  /\ OnClose(s, code)

\* The server starts to close an open socket: its readyState is CLOSING
\* until the close event is delivered, and nothing of the session has
\* changed yet (sendMessage tests readyState, lines 232-234).
RemoteClosing(s, code) ==
  /\ Allowed("RemoteClosing")
  /\ sockets[s].st = "open"
  /\ sockets' = [sockets EXCEPT ![s] = Socket("closing", @.retry, @.mode, FALSE, code, @.cancelled)]
  /\ lastSend' = NoSend
  /\ UNCHANGED <<isWebSocketMode, isConnected, isConnecting, connectSeesConnecting, effectDue,
                 webSocketRef, reconnectTimeoutRef, messageQueue, wire, reconnects, sendOp>>
  /\ UNCHANGED <<cvars, svars>>

\* the connection cannot be opened: onerror (lines 180-192), then onclose
\* with code 1006
OpenFailure(s) ==
  /\ Ready
  /\ sockets[s].st = "connecting"
  /\ OnClose(s, 1006)

\* the close event of a socket the client closed
CloseDelivered(s) ==
  /\ Ready
  /\ sockets[s].st = "closing"
  /\ OnClose(s, sockets[s].code)

\* lines 106-115: the connectTimeout of a socket still connecting
ConnectTimeout(s) ==
  /\ Allowed("ConnectTimeout")
  /\ sockets[s].st = "connecting"
  /\ sockets' = [sockets EXCEPT ![s] = Socket("closing", @.retry, @.mode, FALSE, 1006, @.cancelled)]
  /\ isConnecting' = FALSE
  /\ effectDue' = EffectAfter(isWebSocketMode, isConnected, FALSE, FALSE)
  /\ sendOp' = IF SendGivenUp(sockets[s].awaited) THEN NoSendOp ELSE sendOp
  /\ loading' = IF SendGivenUp(sockets[s].awaited) THEN FALSE ELSE loading
  /\ messageIsStreaming' = IF SendGivenUp(sockets[s].awaited) THEN FALSE ELSE messageIsStreaming
  /\ lastSend' = NoSend
  /\ UNCHANGED <<isWebSocketMode, isConnected, connectSeesConnecting, webSocketRef,
                 reconnectTimeoutRef, messageQueue, wire, reconnects>>
  /\ UNCHANGED <<http, variant, feed, conversations, selectedConversation, view,
                 enableIntermediateSteps, stopTimers, modalOpen, interactionMessage, last>>

\* the sockets after disconnect() (lines 211-224): the timer held by
\* reconnectTimeoutRef is cleared, the socket held by webSocketRef is closed
\* with code 1000
AfterDisconnect(socks) ==
  [s \in SocketIds |->
     IF s = reconnectTimeoutRef /\ socks[s].st = "closed" THEN NoSocket
     ELSE IF s = webSocketRef
       THEN Socket("closing", socks[s].retry, socks[s].mode, FALSE, 1000, FALSE)
     ELSE IF socks[s].st = "connecting" THEN [socks[s] EXCEPT !.cancelled = TRUE]
     ELSE socks[s]]

\* the user closed the session (disconnect() found a socket to close)
UserClosed == [NoReconnects EXCEPT !.userClosed = (webSocketRef # 0)]

\* lines 208-229
Disconnect ==
  /\ Allowed("Disconnect")
  /\ sockets' = AfterDisconnect(sockets)
  /\ reconnectTimeoutRef' = 0
  /\ webSocketRef' = 0
  /\ isConnected' = FALSE
  /\ isConnecting' = FALSE
  /\ reconnects' = UserClosed
  /\ effectDue' = EffectAfter(isWebSocketMode, FALSE, FALSE, FALSE)
  /\ loading' = FALSE
  /\ messageIsStreaming' = FALSE
  /\ lastSend' = NoSend
  /\ UNCHANGED <<isWebSocketMode, connectSeesConnecting, messageQueue, wire, sendOp>>
  /\ UNCHANGED <<http, variant, feed, conversations, selectedConversation, view,
                 enableIntermediateSteps, stopTimers, modalOpen, interactionMessage, last>>

\* lines 293-304; connect is the callback of the render before the toggle,
\* so the socket it creates captures the mode before the toggle
SetWebSocketMode(enabled) ==
  /\ Allowed("SetWebSocketMode")
  /\ enabled # isWebSocketMode
  /\ isWebSocketMode' = enabled
  /\ reconnects' = IF enabled THEN NoReconnects ELSE UserClosed
  /\ lastSend' = NoSend
  /\ IF enabled /\ ~isConnected /\ ~isConnecting
       THEN LET started == ConnectResult(connectSeesConnecting) = "started" IN
              /\ started => HasFreeSlot(sockets)
              /\ sockets' = IF started THEN Started(sockets, 0, isWebSocketMode, FALSE)
                            ELSE sockets
              /\ isConnecting' = started
              /\ UNCHANGED <<isConnected, webSocketRef, reconnectTimeoutRef, loading,
                             messageIsStreaming>>
     ELSE IF ~enabled /\ (isConnected \/ isConnecting)
       THEN /\ sockets' = AfterDisconnect(sockets)
            /\ reconnectTimeoutRef' = 0
            /\ webSocketRef' = 0
            /\ isConnected' = FALSE
            /\ isConnecting' = FALSE
            /\ loading' = FALSE
            /\ messageIsStreaming' = FALSE
     ELSE UNCHANGED <<sockets, reconnectTimeoutRef, webSocketRef, isConnected, isConnecting,
                      loading, messageIsStreaming>>
  /\ connectSeesConnecting' = isConnecting'
  /\ effectDue' = EffectCondition(enabled, isConnected', isConnecting')
  /\ UNCHANGED <<messageQueue, wire, sendOp>>
  /\ UNCHANGED <<http, variant, feed, conversations, selectedConversation, view,
                 enableIntermediateSteps, stopTimers, modalOpen, interactionMessage, last>>

\* the session as the flags of the transport report it (lines 17-18, 323-324)
SessionState ==
  IF isConnected THEN "connected" ELSE IF isConnecting THEN "connecting" ELSE "disconnected"

\* sendMessage without the branch of lines 235-239
SendOutcome_DropsWhileConnecting ==
  IF webSocketRef = 0 \/ sockets[webSocketRef].st # "open" THEN "refused" ELSE "written"

\* sendMessage, lines 232-252: what becomes of the event
SendOutcome ==
  IF webSocketRef = 0 \/ sockets[webSocketRef].st # "open"
    THEN (IF isConnecting THEN "queued" ELSE "refused")
    ELSE "written"

CanSend == SendOutcome # "refused" => Len(wire) + Len(messageQueue) < MaxOutbound

Sent(message) ==
  [message |-> message, state |-> SessionState, returned |-> SendOutcome # "refused",
   queued |-> SendOutcome = "queued", written |-> SendOutcome = "written"]

QueueAfter(message) ==
  IF SendOutcome = "queued" THEN Append(messageQueue, message) ELSE messageQueue

WireAfter(message) ==
  IF SendOutcome = "written" THEN Append(wire, Frame(webSocketRef, message, FALSE)) ELSE wire

\* sendMessage called through sendUserInteraction (lines 267-290)
SendMessage(message) ==
  /\ Allowed("SendMessage")
  /\ CanSend
  /\ messageQueue' = QueueAfter(message)
  /\ wire' = WireAfter(message)
  /\ lastSend' = Sent(message)
  /\ UNCHANGED <<isWebSocketMode, isConnected, isConnecting, connectSeesConnecting, effectDue,
                 webSocketRef, reconnectTimeoutRef, sockets, reconnects, sendOp>>
  /\ UNCHANGED <<cvars, svars>>

\* the frame of the user's chat message (sendUserMessage, lines 254-265)
UserFrame == "user"

\* handleSend of part_001:109-234 in duplex mode, deleteCount = 0.  With
\* transport.isConnected it stores the log and sends; without, it awaits
\* transport.connect() and, on true, calls handleSend(message, 1).
HandleSendDuplex(text) ==
  /\ Allowed("HandleSendDuplex")
  /\ variant = "processor"
  /\ isWebSocketMode
  /\ sendOp.phase = "none"
  /\ LET pre == selectedConversation.messages
         updatedConversation == [selectedConversation EXCEPT !.messages = Append(pre, UserMessage(text))]
         result == ConnectResult(connectSeesConnecting)
         started == ~isConnected /\ result = "started"
         already == ~isConnected /\ result = "already"
     IN
       /\ Len(pre) < MaxMessages
       /\ started => HasFreeSlot(sockets)
       /\ isConnected => CanSend
       /\ selectedConversation' =
            IF already
              THEN [selectedConversation EXCEPT !.messages = RetryLog(pre, text)]
              ELSE updatedConversation
       /\ conversations' =
            IF isConnected THEN ReplaceConversation(conversations, updatedConversation)
            ELSE conversations
       /\ sockets' = IF started THEN Started(sockets, 0, isWebSocketMode, TRUE) ELSE sockets
       /\ isConnecting' = (started \/ isConnecting)
       /\ sendOp' = IF started THEN [phase |-> "awaiting", pre |-> pre, text |-> text]
                    ELSE IF already THEN [phase |-> "looping", pre |-> pre, text |-> text]
                    ELSE NoSendOp
       /\ loading' = (started \/ already \/ (isConnected /\ SendOutcome # "refused"))
       /\ messageIsStreaming' = loading'
       /\ messageQueue' = IF isConnected THEN QueueAfter(UserFrame) ELSE messageQueue
       /\ wire' = IF isConnected THEN WireAfter(UserFrame) ELSE wire
       /\ lastSend' = IF isConnected THEN Sent(UserFrame) ELSE NoSend
       /\ reconnects' = IF started THEN NoReconnects ELSE reconnects
  \* the store changed: handleWebSocketMessage, and with it connect, are new callbacks
  /\ connectSeesConnecting' = isConnecting'
  /\ effectDue' = EffectCondition(isWebSocketMode, isConnected, isConnecting')
  /\ UNCHANGED <<isWebSocketMode, isConnected, webSocketRef, reconnectTimeoutRef>>
  /\ UNCHANGED <<http, variant, feed, view, enableIntermediateSteps, stopTimers, modalOpen,
                 interactionMessage, last>>

\* part_001:150-162: the retry of handleSend calls itself again, in the same
\* callback; nothing it reads has changed
ResendLoop ==
  /\ sendOp.phase = "looping"
  /\ UNCHANGED vars

\* A render in which the store changed gives the transport a new onMessage
\* (part_001:700-798, 825-834), and connect is a new callback that captures
\* the isConnecting of that render (part_000:53, 206).
RebindConnect ==
  /\ Allowed("RebindConnect")
  /\ connectSeesConnecting # isConnecting
  /\ connectSeesConnecting' = isConnecting
  /\ effectDue' = EffectCondition(isWebSocketMode, isConnected, isConnecting)
  /\ lastSend' = NoSend
  /\ UNCHANGED <<isWebSocketMode, isConnected, isConnecting, webSocketRef, reconnectTimeoutRef,
                 sockets, messageQueue, wire, reconnects, sendOp>>
  /\ UNCHANGED <<cvars, svars>>

\* a conversation with one exchange in its log
History ==
  << UserMessage(<<"a">>),
     createAssistantMessage("r1", Undefined, <<"a">>, <<>>, <<>>, <<>>) >>

InitialLogs == { <<>>, History }

\* the log matters to the sends of the chat only
FeedLogs(f) == IF f = "chat" THEN InitialLogs ELSE { <<>> }

\* the transport as mounted: the mode comes from sessionStorage (lines 40-44)
TransportInit ==
  /\ variant = "processor"
  /\ feed \in TransportFeeds
  /\ \E log \in FeedLogs(feed) :
       /\ selectedConversation = Conversation(SelectedId, DefaultName, log)
       /\ conversations = << Conversation("c1", DefaultName, log),
                             Conversation("c2", DefaultName, <<>>) >>
  /\ view = Store(conversations, selectedConversation)
  /\ enableIntermediateSteps = TRUE
  /\ loading = FALSE
  /\ messageIsStreaming = FALSE
  /\ stopTimers = 0
  /\ modalOpen = FALSE
  /\ interactionMessage = NoPayload
  /\ last = NoLast
  /\ isWebSocketMode \in BOOLEAN
  /\ isConnected = FALSE
  /\ isConnecting = FALSE
  /\ connectSeesConnecting = FALSE
  /\ effectDue = isWebSocketMode
  /\ webSocketRef = 0
  /\ reconnectTimeoutRef = 0
  /\ sockets = [s \in SocketIds |-> NoSocket]
  /\ messageQueue = <<>>
  /\ wire = <<>>
  /\ reconnects = NoReconnects
  /\ sendOp = NoSendOp
  /\ lastSend = NoSend
  /\ http = NoHttp

TransportNext ==
  \/ AutoConnect
  \/ \E s \in SocketIds : ReconnectTimer(s)
  \/ \E s \in SocketIds : OnOpen(s)
  \/ \E s \in SocketIds, code \in {1000, 1006} : RemoteClose(s, code)
  \/ \E s \in SocketIds, code \in {1000, 1006} : RemoteClosing(s, code)
  \/ \E s \in SocketIds : OpenFailure(s)
  \/ \E s \in SocketIds : CloseDelivered(s)
  \/ \E s \in SocketIds : ConnectTimeout(s)
  \/ Disconnect
  \/ \E enabled \in BOOLEAN : SetWebSocketMode(enabled)
  \/ \E message \in OutboundMessages : SendMessage(message)
  \/ \E text \in UserTexts : HandleSendDuplex(text)
  \/ ResendLoop
  \/ RebindConnect

\* the model stops short of a connect() the bounds leave no room for
BoundReached ==
  /\ effectDue
  /\ ConnectResult(connectSeesConnecting) = "started"
  /\ ~(HasFreeSlot(sockets) /\ AttemptAllowed)

\* Effects run after the render that made them due.  A socket that is
\* connecting opens, fails to open, or meets the connectTimeout armed when it
\* was created (lines 106-115): the timer runs in real time, whatever the
\* session does meanwhile, so the fairness is strong.
TransportFairness ==
  /\ WF_vars(AutoConnect)
  /\ \A s \in SocketIds : SF_vars(OnOpen(s) \/ OpenFailure(s) \/ ConnectTimeout(s))

TransportSpec == TransportInit /\ [][TransportNext]_vars

\* ------------------------------------ Chat.handleSend, the HTTP path
MaxChunks == 2        \* most chunks a response body arrives in
MaxSends == 2         \* most handleSend calls on the HTTP path explored

StartMarker ==
  <<"<", "i", "n", "t", "e", "r", "m", "e", "d", "i", "a", "t", "e", "s", "t", "e", "p", ">">>

EndMarker ==
  <<"<", "/", "i", "n", "t", "e", "r", "m", "e", "d", "i", "a", "t", "e", "s", "t", "e", "p", ">">>

\* A response body is a sequence of characters.  The JSON text of a segment
\* is one element: the decoder looks for the two markers only, so a chunk
\* boundary inside the JSON text acts as one before the end marker.
StepJson == "{\"type\":\"system_intermediate\",\"id\":\"s1\"}"
OtherJson == "{\"type\":\"x\",\"id\":\"s1\"}"
LineFeed == "\n"

StreamFeeds == { "step", "other", "multiline" }

SegmentBody(f) ==
  CASE f = "step" -> <<StepJson>>
    [] f = "other" -> <<OtherJson>>
    [] OTHER -> <<LineFeed, StepJson, LineFeed>>

\* plain text, one complete segment, plain text
Stream(f) == <<"A">> \o StartMarker \o SegmentBody(f) \o EndMarker \o <<"B">>

\* every way the body arrives in at most n chunks, none of them empty
RECURSIVE Chunkings(_, _)
Chunkings(s, n) ==
  IF s = <<>> THEN { <<>> }
  ELSE IF n <= 1 THEN { <<s>> }
  ELSE { <<s>> } \cup
       UNION { { <<SubSeq(s, 1, k)>> \o rest :
                   rest \in Chunkings(SubSeq(s, k + 1, Len(s)), n - 1) } :
               k \in 1..(Len(s) - 1) }

\* t occurs in s at position i
MatchesAt(s, t, i) ==
  i >= 1 /\ i + Len(t) - 1 <= Len(s) /\ SubSeq(s, i, i + Len(t) - 1) = t

Occurrences(s, t) == { i \in 1..Len(s) : MatchesAt(s, t, i) }

\* String.prototype.lastIndexOf, counted from 1: 0 stands for -1
LastIndexOf(s, t) ==
  IF Occurrences(s, t) = {} THEN 0
  ELSE CHOOSE i \in Occurrences(s, t) : \A j \in Occurrences(s, t) : j <= i

\* String.prototype.indexOf(t, from), counted from 1: 0 stands for -1
IndexOf(s, t, from) ==
  LET later == { i \in Occurrences(s, t) : i >= from } IN
    IF later = {} THEN 0
    ELSE CHOOSE i \in later : \A j \in later : i <= j

\* White space of String.prototype.trim and of \s
IsBlank(c) == c \in { " ", LineFeed }

RECURSIVE TrimBlank(_)
TrimBlank(s) ==
  IF s # <<>> /\ IsBlank(Head(s)) THEN TrimBlank(Tail(s))
  ELSE IF s # <<>> /\ IsBlank(s[Len(s)]) THEN TrimBlank(SubSeq(s, 1, Len(s) - 1))
  ELSE s

\* . of a regular expression without the s flag matches no line terminator
OnOneLine(s) == \A i \in 1..Len(s) : s[i] # LineFeed

\* The matches of /<intermediatestep>(.*?)<\/intermediatestep>/g in s from
\* position pos on, as the positions of their first and last character;
\* with dotAll the group is ([\s\S]*?).
RECURSIVE Segments(_, _, _)
Segments(s, pos, dotAll) ==
  LET i == IndexOf(s, StartMarker, pos)
      j == IndexOf(s, EndMarker, i + Len(StartMarker))
  IN
    IF i = 0 \/ j = 0 THEN <<>>
    ELSE IF dotAll \/ OnOneLine(SubSeq(s, i + Len(StartMarker), j - 1))
      THEN <<[from |-> i, to |-> j + Len(EndMarker) - 1]>>
             \o Segments(s, j + Len(EndMarker), dotAll)
    ELSE Segments(s, i + 1, dotAll)

\* s.replace(/<intermediatestep>[\s\S]*?<\/intermediatestep>/g, '') from pos on
RECURSIVE Without(_, _, _)
Without(s, segs, pos) ==
  IF segs = <<>> THEN SubSeq(s, pos, Len(s))
  ELSE SubSeq(s, pos, Head(segs).from - 1) \o Without(s, Tail(segs), Head(segs).to + 1)

\* message.replace('<intermediatestep>', '').replace('</intermediatestep>', '').trim()
JsonString(s, seg) ==
  TrimBlank(SubSeq(s, seg.from + Len(StartMarker), seg.to - Len(EndMarker)))

\* JSON.parse: the value, or the exception the catch swallows
JsonParse(jsonString) ==
  IF jsonString = <<StepJson>> THEN [ok |-> TRUE, type |-> "system_intermediate", id |-> "s1"]
  ELSE IF jsonString = <<OtherJson>> THEN [ok |-> TRUE, type |-> "x", id |-> "s1"]
  ELSE [ok |-> FALSE, type |-> Undefined, id |-> Undefined]

\* the regular expression of the match: . in the component built on
\* processWebSocketMessage (line 332), [\s\S] in the other (line 1543)
DotAll == variant = "inline"

\* where the chunk is cut before it is processed: at the last start marker
\* when no end marker follows it, after its last character otherwise
SplitAt(chunkValue) ==
  IF LastIndexOf(chunkValue, StartMarker) > LastIndexOf(chunkValue, EndMarker)
    THEN LastIndexOf(chunkValue, StartMarker)
    ELSE Len(chunkValue) + 1

\* rawIntermediateSteps of one iteration
RECURSIVE RawSteps(_, _)
RawSteps(s, segs) ==
  IF segs = <<>> THEN <<>>
  ELSE LET parsed == JsonParse(JsonString(s, Head(segs))) IN
         (IF parsed.ok /\ parsed.type = "system_intermediate"
            THEN <<[type |-> parsed.type, id |-> parsed.id]>> ELSE <<>>)
           \o RawSteps(s, Tail(segs))

\* rawIntermediateSteps.forEach(step => steps = processIntermediateMessage(steps, step))
RECURSIVE MergeSteps(_, _)
MergeSteps(steps, rawSteps) ==
  IF rawSteps = <<>> THEN steps
  ELSE MergeSteps(processIntermediateMessage(steps, WithIndex(Head(rawSteps), Undefined)),
                  Tail(rawSteps))

\* One iteration of the loop on the chunk value (lines 306-411): the locals
\* after it.  raw collects the segments honoured so far.
DecodeChunk(loop, value, dotAll) ==
  LET chunkValue == loop.partialIntermediateStep \o value
      cut == SplitAt(chunkValue)
      kept == SubSeq(chunkValue, 1, cut - 1)
      messages == Segments(kept, 1, dotAll)
      rawIntermediateSteps == RawSteps(kept, messages)
      visible == IF messages # <<>> THEN Without(kept, Segments(kept, 1, TRUE), 1) ELSE kept
      text == loop.text \o visible
      log == loop.updatedConversation.messages
      updatedMessages ==
        IF loop.isFirst
          THEN Append(log, Message("assistant", Undefined, Undefined, text,
                                   MergeSteps(<<>>, rawIntermediateSteps), <<>>, <<>>))
          ELSE ReplaceLast(log,
                 [log[Len(log)] EXCEPT
                    !.content = text,
                    !.intermediateSteps = MergeSteps(@, rawIntermediateSteps)])
  IN [loop EXCEPT
        !.partialIntermediateStep = SubSeq(chunkValue, cut, Len(chunkValue)),
        !.text = text,
        !.isFirst = FALSE,
        !.raw = @ \o rawIntermediateSteps,
        !.updatedConversation = [@ EXCEPT !.messages = updatedMessages]]

\* the whole body decoded as it arrives in these chunks, the read that
\* reports the end of the body included
RECURSIVE DecodeAll(_, _, _)
DecodeAll(loop, chunks, dotAll) ==
  IF chunks = <<>> THEN DecodeChunk(loop, <<>>, dotAll)
  ELSE DecodeAll(DecodeChunk(loop, Head(chunks), dotAll), Tail(chunks), dotAll)

LongText == [i \in 1..(TitleLen + 1) |-> "x"]

HttpTexts == { <<"a">>, LongText }

\* handleSend up to the fetch (lines 109-144 and 236-267); current is
\* currentMessage as the caller leaves it.  The user acts when no answer
\* is being streamed.
HandleSendHttp(text, deleteCount, current) ==
  /\ http.phase \in { "idle", "done" }
  /\ ~messageIsStreaming
  /\ http.sends < MaxSends
  /\ ~isWebSocketMode
  /\ deleteCount <= Len(selectedConversation.messages)
  /\ LET kept == SubSeq(selectedConversation.messages, 1,
                        Len(selectedConversation.messages) - deleteCount)
         updatedConversation ==
           [selectedConversation EXCEPT !.messages = Append(kept, UserMessage(text))]
     IN
       /\ Len(updatedConversation.messages) <= MaxMessages
       /\ selectedConversation' = updatedConversation
       /\ http' = [http EXCEPT !.phase = "fetching", !.sends = @ + 1,
                               !.message = text, !.chunks = <<>>,
                               !.read = <<>>, !.loop = LoopStart(updatedConversation),
                               !.currentMessage = current, !.toast = FALSE]
  /\ loading' = TRUE
  /\ messageIsStreaming' = TRUE
  /\ UNCHANGED <<variant, feed, conversations, view, enableIntermediateSteps, stopTimers,
                 modalOpen, interactionMessage, last>>
  /\ UNCHANGED tvars

\* ChatInput onSend (lines 663-666)
OnSend(text) == HandleSendHttp(text, 0, text)

\* the edit removing as many messages as precede the one edited
OnEdit_CountFromStart(text, index) ==
  /\ index < Len(selectedConversation.messages)
  /\ selectedConversation.messages[index + 1].role = "user"
  /\ HandleSendHttp(text, index + 1, text)

\* ChatMessage onEdit of the user message at position index, counted from 0
\* (lines 645-651)
OnEdit(text, index) ==
  /\ index < Len(selectedConversation.messages)
  /\ selectedConversation.messages[index + 1].role = "user"
  /\ HandleSendHttp(text, Len(selectedConversation.messages) - index, text)

\* fetchLastMessage({messages, role: 'user'}): the position of the last
\* message of the user, 0 if none
fetchLastMessage(messages) ==
  LET mine == { i \in 1..Len(messages) : messages[i].role = "user" } IN
    IF mine = {} THEN 0 ELSE CHOOSE i \in mine : \A j \in mine : j <= i

\* ChatInput onRegenerate (lines 668-677)
OnRegenerate ==
  IF http.currentMessage # <<>>
    THEN HandleSendHttp(http.currentMessage, 0, http.currentMessage)
    ELSE /\ fetchLastMessage(selectedConversation.messages) # 0
         /\ HandleSendHttp(
              selectedConversation.messages[
                fetchLastMessage(selectedConversation.messages)].content, 1,
              http.currentMessage)

\* content.length > 30 ? content.substring(0, 30) + '...' : content, given
\* to a conversation whose log holds one message (lines 286-297)
Named(conv, content) ==
  IF Len(conv.messages) = 1 THEN [conv EXCEPT !.name = TruncateTitle(content)] ELSE conv

\* the fetch resolves with a body (lines 269-305)
ResponseArrives(chunks) ==
  /\ http.phase = "fetching"
  /\ http' = [http EXCEPT !.phase = "reading", !.chunks = chunks,
                          !.loop.updatedConversation = Named(@, http.message)]
  /\ loading' = FALSE
  /\ UNCHANGED <<variant, feed, conversations, selectedConversation, view,
                 enableIntermediateSteps, messageIsStreaming, stopTimers, modalOpen,
                 interactionMessage, last>>
  /\ UNCHANGED tvars

\* the fetch resolves with a status that is not ok (lines 270-275)
ResponseNotOk ==
  /\ http.phase = "fetching"
  /\ http' = [http EXCEPT !.phase = "idle", !.toast = TRUE]
  /\ loading' = FALSE
  /\ messageIsStreaming' = FALSE
  /\ UNCHANGED <<variant, feed, conversations, selectedConversation, view,
                 enableIntermediateSteps, stopTimers, modalOpen, interactionMessage, last>>
  /\ UNCHANGED tvars

\* reader.read() resolves with a chunk: one iteration of the loop
ReadChunk ==
  /\ http.phase = "reading"
  /\ http.chunks # <<>>
  /\ http' = [http EXCEPT !.chunks = Tail(@), !.read = Append(@, Head(http.chunks)),
                          !.loop = DecodeChunk(@, Head(http.chunks), DotAll)]
  /\ selectedConversation' = http'.loop.updatedConversation
  /\ loading' = FALSE
  /\ UNCHANGED <<variant, feed, conversations, view, enableIntermediateSteps,
                 messageIsStreaming, stopTimers, modalOpen, interactionMessage, last>>
  /\ UNCHANGED tvars

\* reader.read() resolves with done: the last iteration, on an empty chunk
\* value, and the code after the loop (lines 413-437)
StreamEnd ==
  /\ http.phase = "reading"
  /\ http.chunks = <<>>
  /\ stopTimers < MaxTimers
  /\ http' = [http EXCEPT !.phase = "done", !.read = <<>>,
                          !.loop = DecodeChunk(@, <<>>, DotAll)]
  /\ selectedConversation' = http'.loop.updatedConversation
  /\ conversations' = ReplaceConversation(conversations, http'.loop.updatedConversation)
  /\ loading' = FALSE
  /\ stopTimers' = stopTimers + 1
  /\ UNCHANGED <<variant, feed, view, enableIntermediateSteps, messageIsStreaming,
                 modalOpen, interactionMessage, last>>
  /\ UNCHANGED tvars

\* The signal given to fetch is aborted while the response is awaited or
\* between two reads: the await throws and the catch runs (lines 471-481).
\* It dispatches no conversation, so the one selected is the one of the
\* last iteration; the locals of the loop are gone, read is kept to tell
\* what was processed.  The session is followed up to the abort: the
\* controller, and with it what a later fetch meets, is ChatInput's.
AbortLeaving(selected) ==
  /\ http.phase \in { "fetching", "reading" }
  /\ http' = [http EXCEPT !.phase = "aborted", !.chunks = <<>>,
                          !.loop = LoopStart(selected)]
  /\ selectedConversation' = selected
  /\ loading' = FALSE
  /\ messageIsStreaming' = FALSE
  /\ UNCHANGED <<variant, feed, conversations, view, enableIntermediateSteps, stopTimers,
                 modalOpen, interactionMessage, last>>
  /\ UNCHANGED tvars

\* the catch showing what the carry-over buffer holds as text of the answer
Abort_Flush ==
  AbortLeaving(
    IF http.loop.isFirst THEN selectedConversation
    ELSE [selectedConversation EXCEPT
            !.messages = ReplaceLast(@,
               [@[Len(@)] EXCEPT !.content = @ \o http.loop.partialIntermediateStep])])

Abort == AbortLeaving(selectedConversation)

\* the chat as mounted with the duplex mode off
StreamInit ==
  /\ variant \in {"processor", "inline"}
  /\ feed \in StreamFeeds
  /\ \E log \in InitialLogs :
       /\ selectedConversation = Conversation(SelectedId, DefaultName, log)
       /\ conversations = << Conversation("c1", DefaultName, log),
                             Conversation("c2", DefaultName, <<>>) >>
  /\ view = Store(conversations, selectedConversation)
  /\ enableIntermediateSteps = TRUE
  /\ loading = FALSE
  /\ messageIsStreaming = FALSE
  /\ stopTimers = 0
  /\ modalOpen = FALSE
  /\ interactionMessage = NoPayload
  /\ last = NoLast
  /\ isWebSocketMode = FALSE
  /\ isConnected = FALSE
  /\ isConnecting = FALSE
  /\ connectSeesConnecting = FALSE
  /\ effectDue = FALSE
  /\ webSocketRef = 0
  /\ reconnectTimeoutRef = 0
  /\ sockets = [s \in SocketIds |-> NoSocket]
  /\ messageQueue = <<>>
  /\ wire = <<>>
  /\ reconnects = NoReconnects
  /\ sendOp = NoSendOp
  /\ lastSend = NoSend
  /\ http = NoHttp

StreamNext ==
  \/ \E text \in HttpTexts : OnSend(text)
  \/ \E text \in HttpTexts, index \in 0..MaxMessages : OnEdit(text, index)
  \/ OnRegenerate
  \/ \E chunks \in Chunkings(Stream(feed), MaxChunks) : ResponseArrives(chunks)
  \/ ResponseNotOk
  \/ ReadChunk
  \/ StreamEnd
  \/ Abort
  \/ StopStreamingTimer

StreamSpec == StreamInit /\ [][StreamNext]_vars

\* The chunk boundaries the decoder tells apart in a body with one segment:
\* inside the start marker, after it, and before the end marker.  A cut at
\* k ends a chunk with the k-th character.
SegmentCuts(f) ==
  { 2, 1 + Len(StartMarker), 1 + Len(StartMarker) + Len(SegmentBody(f)) }

\* s cut after each position of cuts, from position from on
RECURSIVE SplitFrom(_, _, _)
SplitFrom(s, cuts, from) ==
  IF cuts = {} THEN <<SubSeq(s, from, Len(s))>>
  ELSE LET k == CHOOSE c \in cuts : \A d \in cuts : c <= d IN
         <<SubSeq(s, from, k)>> \o SplitFrom(s, cuts \ {k}, k + 1)

\* the body arriving in at most n chunks cut at those boundaries
ChunkingsAt(s, cuts, n) ==
  { SplitFrom(s, chosen, 1) : chosen \in { c \in SUBSET cuts : Cardinality(c) < n } }

\* The HTTP path of the chat with the answers cut at those boundaries: the
\* specification of the properties of the log, which do not depend on
\* where else a chunk ends.
AnswerNext ==
  \/ \E text \in HttpTexts : OnSend(text)
  \/ \E text \in HttpTexts, index \in 0..MaxMessages : OnEdit(text, index)
  \/ OnRegenerate
  \/ \E chunks \in ChunkingsAt(Stream(feed), SegmentCuts(feed), MaxChunks) :
       ResponseArrives(chunks)
  \/ ResponseNotOk
  \/ ReadChunk
  \/ StreamEnd
  \/ Abort
  \/ StopStreamingTimer

AnswerSpec == StreamInit /\ [][AnswerNext]_vars

\* The chat on either path: a session on the open duplex connection, or a
\* session on the HTTP path.
LogInit == Init \/ StreamInit

LogNext ==
  \/ feed \in Feeds /\ Next
  \/ feed \in StreamFeeds /\ AnswerNext

LogSpec == LogInit /\ [][LogNext]_vars

\* One chat session followed to the end of each of its connection attempts:
\* the attempts of the auto-connect effect and of handleSend, which awaits
\* the promise of connect().  An open socket is closed in one step.
AttemptInit == TransportInit /\ feed = "chat"

AttemptNext ==
  \/ AutoConnect
  \/ \E s \in SocketIds : OnOpen(s)
  \/ \E s \in SocketIds, code \in {1000, 1006} : RemoteClose(s, code)
  \/ \E s \in SocketIds : OpenFailure(s)
  \/ \E s \in SocketIds : CloseDelivered(s)
  \/ \E s \in SocketIds : ConnectTimeout(s)
  \/ \E text \in UserTexts : HandleSendDuplex(text)
  \/ ResendLoop
  \/ RebindConnect

AttemptSpec == AttemptInit /\ [][AttemptNext]_vars /\ TransportFairness

\* ================================================================ claims
Handled == last.outcome # "none"
Applied == last.outcome = "applied"
OpenBefore == IsLastAssistant(last.pre)
PreLast == last.pre[Len(last.pre)]
PostLast == last.post[Len(last.post)]
NonEmptyChunk ==
  isSystemResponseInProgress(last.ev) /\ Trim(ContentText(last.ev)) # <<>>

\* C1: an in_progress response chunk with non-empty text that meets an open
\* assistant message is folded, and the content afterwards is the content
\* before followed by the fragment as received, nothing inserted or removed
\* ("a" followed by " a" gives "a a").
C1_ChunkConcatenatedVerbatim ==
  (Handled /\ NonEmptyChunk /\ OpenBefore) =>
    /\ Applied
    /\ Len(last.post) = Len(last.pre)
    /\ PostLast.content = PreLast.content \o ContentText(last.ev)

\* C2: a response chunk with status complete changes no message content and
\* creates no message: the log returned is the log handed in.
C2_CompleteChangesNoContent ==
  (Handled /\ isSystemResponseComplete(last.ev)) =>
    /\ last.post = last.pre
    /\ ~last.changed

\* C3: a payload the classifier rejects (no type, unknown type, non-object,
\* null) leaves the conversation list and the selected conversation as they
\* were.
C3_MalformedChangesNothing ==
  (Handled /\ ~validateWebSocketMessage(last.ev)) =>
    /\ last.outcome = "rejected"
    /\ ~last.changed
    /\ last.post = last.pre

\* the payload handled is a step the open assistant message already carries
C4_RedeliveredStep ==
  Applied /\ isSystemIntermediateMessage(last.ev) /\ OpenBefore
    /\ \E i \in 1..Len(PreLast.intermediateSteps) :
         PreLast.intermediateSteps[i].ev = last.ev

C5_UsableRedirect ==
  Handled /\ isOAuthConsentMessage(last.ev) /\ HasOAuthUrl(last.ev)

\* C5: an oauth_consent interaction with a usable address (oauth_url,
\* redirect_url or text) opens the redirect and nothing else: no message
\* gains an InteractionRecord, the store is unchanged, no modal is opened.
C5_RedirectLeavesStore ==
  C5_UsableRedirect =>
    /\ last.outcome = "redirect"
    /\ ~last.changed
    /\ last.post = last.pre
    /\ interactionMessage # last.ev

C5_Witness ==
  /\ C5_UsableRedirect
  /\ last.ev.oauth_url = Undefined
  /\ last.ev.redirect_url = Undefined
  /\ IsLastAssistant(selectedConversation.messages)

\* C6: every error event, with or without a content field, is folded: it is
\* one more entry of the open assistant message's errorMessages, or the only
\* entry of a new assistant message with empty content; it is neither
\* dropped nor does its processing throw.
C6_ErrorAlwaysAttached ==
  (Handled /\ isErrorMessage(last.ev)) =>
    /\ Applied
    /\ OpenBefore =>
         /\ Len(last.post) = Len(last.pre)
         /\ Len(PostLast.errorMessages) = Len(PreLast.errorMessages) + 1
         /\ PostLast.errorMessages[Len(PostLast.errorMessages)].id = last.ev.id
    /\ ~OpenBefore =>
         /\ Len(last.post) = Len(last.pre) + 1
         /\ PostLast.role = "assistant"
         /\ PostLast.content = <<>>
         /\ Len(PostLast.errorMessages) = 1
         /\ PostLast.errorMessages[1].id = last.ev.id

\* C7: an interaction request that is not an oauth_consent redirect is one
\* more entry of the open assistant message's humanInteractionMessages, or
\* the only entry of a new assistant message with empty content.
C7_InteractionAttached ==
  (Handled /\ isSystemInteractionMessage(last.ev) /\ ~isOAuthConsentMessage(last.ev)) =>
    /\ Applied
    /\ OpenBefore =>
         /\ Len(last.post) = Len(last.pre)
         /\ PostLast.humanInteractionMessages =
              Append(PreLast.humanInteractionMessages, last.ev)
    /\ ~OpenBefore =>
         /\ Len(last.post) = Len(last.pre) + 1
         /\ PostLast.role = "assistant"
         /\ PostLast.content = <<>>
         /\ PostLast.humanInteractionMessages = <<last.ev>>

\* C8: an intermediate-step event leaves the content of the open assistant
\* message as it was; with none open, the message created has empty content
\* and this one step, whatever text the event carries.
C8_StepKeepsContent ==
  (Applied /\ isSystemIntermediateMessage(last.ev)) =>
    /\ OpenBefore =>
         /\ Len(last.post) = Len(last.pre)
         /\ PostLast.content = PreLast.content
    /\ ~OpenBefore =>
         /\ Len(last.post) = Len(last.pre) + 1
         /\ PostLast.content = <<>>
         /\ PostLast.intermediateSteps = <<WithIndex(last.ev, 0)>>

\* the first n messages are the same before and after
SamePrefix(n) == SubSeq(last.post, 1, n) = SubSeq(last.pre, 1, n)

\* C9: the reconciliation of one inbound payload returns the log it was
\* handed with at most the trailing message changed: with an assistant
\* message last, the count is the same and every message but the last is
\* the same; otherwise the log is returned as it was or with exactly one
\* assistant message appended (always appended by processWebSocketMessage).
C9_OnlyTrailingMessage ==
  Handled =>
    /\ OpenBefore =>
         /\ Len(last.post) = Len(last.pre)
         /\ SamePrefix(Len(last.pre) - 1)
         /\ PostLast.role = "assistant"
    /\ ~OpenBefore =>
         \/ last.post = last.pre /\ (variant = "processor" => ~Applied)
         \/ /\ Len(last.post) = Len(last.pre) + 1
            /\ SamePrefix(Len(last.pre))
            /\ PostLast.role = "assistant"

C9_Witness ==
  /\ Applied
  /\ Len(last.pre) = 3
  /\ last.pre[1].role = "assistant"
  /\ OpenBefore
  /\ last.post # last.pre

\* C10: an in_progress response chunk with non-empty text that meets no open
\* assistant message creates exactly one assistant message whose content is
\* the trimmed fragment.
C10_FirstChunkTrimmed ==
  (Handled /\ NonEmptyChunk /\ ~OpenBefore) =>
    /\ Applied
    /\ Len(last.post) = Len(last.pre) + 1
    /\ SamePrefix(Len(last.pre))
    /\ PostLast.role = "assistant"
    /\ PostLast.content = Trim(ContentText(last.ev))

\* the text has a character that is not white space
HasVisibleText(message) ==
  /\ message.hasContent
  /\ message.hasText
  /\ \E i \in 1..Len(message.text) : ~IsSpace(message.text[i])

\* C11: a response chunk contributes content exactly when its status is
\* in_progress and its text is non-empty after trimming:
\* shouldAppendResponseContent is true for exactly those chunks, and a chunk
\* that is not one of them (missing, empty or whitespace-only text) leaves the
\* message log as it was.
C11_ContributesOnlyVisibleText ==
  (Handled /\ isSystemResponseMessage(last.ev)) =>
    /\ shouldAppendResponseContent(last.ev) <=>
         (last.ev.status = "in_progress" /\ HasVisibleText(last.ev))
    /\ (last.ev.status = "in_progress" /\ ~HasVisibleText(last.ev)) =>
         last.post = last.pre

\* C12: after an unexpected close in always-on mode the session starts at
\* most maxRetries (3) connections on its own, and none once it has shown
\* the connection-failed notification.
C12_ReconnectionBounded ==
  [][/\ reconnects'.attempts <= maxRetries
     /\ reconnects'.attempts > reconnects.attempts => ~reconnects.notified]_vars

\* a step that creates a socket
SocketCreated ==
  \E s \in SocketIds : sockets'[s].st = "connecting" /\ sockets[s].st # "connecting"

\* C13: after a normal close made by the user (disconnect(), code 1000) the
\* session starts no connection until the user connects or toggles the mode
\* again.
C13_UserCloseStaysClosed ==
  [][(reconnects.userClosed /\ reconnects'.userClosed) => ~SocketCreated]_vars

\* C14: disconnect() called while the session is connecting cancels the
\* pending open: the socket in flight never becomes the connection, never
\* sets the connected flag and schedules no reconnect timer.
C14_DisconnectCancelsPendingOpen ==
  \A s \in SocketIds :
    sockets[s].cancelled =>
      /\ sockets[s].st \notin { "open", "closed" }
      /\ webSocketRef # s

\* a step in which disconnect() ran, called by the user or by
\* setWebSocketMode(false)
DisconnectRan ==
  \/ Disconnect
  \/ (isConnected \/ isConnecting) /\ SetWebSocketMode(FALSE)

\* C15: disconnect() cancels every pending reconnect timer and clears the
\* queue of outbound messages.
C15_DisconnectClearsTimersAndQueue ==
  [][DisconnectRan =>
       /\ messageQueue' = <<>>
       /\ \A s \in SocketIds : sockets'[s].st # "closed"]_vars

\* C16: connect() called while the session is connecting (by the user, by a
\* reconnect timer or by the auto-connect effect) returns false and creates
\* no second socket.
C16_NoSocketWhileConnecting ==
  [][isConnecting => ~SocketCreated]_vars

\* the sockets that are open or being opened
LiveSockets == { s \in SocketIds : sockets[s].st \in { "connecting", "open" } }

\* C17: in every reachable state the session has at most one socket open or
\* being opened.
C17_AtMostOneLiveSocket == Cardinality(LiveSockets) <= 1

\* the socket of the session is being closed by the server
C18_Closing == webSocketRef # 0 /\ sockets[webSocketRef].st = "closing"

\* C18: send(event) returns true when the event is written to the open
\* socket or queued, and false otherwise: while the session is connecting
\* the event is queued and true is returned; while it is disconnected or
\* closing false is returned and the event is neither written nor queued;
\* while it is connected the event is written.
C18_SendReportsOutcome ==
  [][lastSend'.state # "none" =>
       LET event == lastSend'.message
           written == /\ wire' = Append(wire, Frame(webSocketRef, event, FALSE))
                      /\ messageQueue' = messageQueue
           queued == /\ messageQueue' = Append(messageQueue, event)
                     /\ wire' = wire
           neither == wire' = wire /\ messageQueue' = messageQueue
       IN
         /\ lastSend'.returned <=> (written \/ queued)
         /\ ~lastSend'.returned => neither
         /\ SessionState = "connecting" => (lastSend'.returned /\ queued)
         /\ SessionState = "disconnected" => (~lastSend'.returned /\ neither)
         /\ (C18_Closing /\ ~isConnecting) => (~lastSend'.returned /\ neither)
         /\ (SessionState = "connected" /\ ~C18_Closing) =>
              (lastSend'.returned /\ written)]_vars

\* an event sent while the session is connecting was queued, and true returned
C18_Witness ==
  /\ lastSend.state = "connecting"
  /\ lastSend.returned
  /\ messageQueue # <<>>
  /\ messageQueue[Len(messageQueue)] = lastSend.message

\* C19: when a socket of the connecting session opens, every message queued
\* while connecting is written to that socket in the order it was queued,
\* before any message sent after the open (frames are only ever appended to
\* what was written), and the queue is empty afterwards.
C19_QueueFlushedInOrder ==
  [][/\ Len(wire') >= Len(wire)
     /\ SubSeq(wire', 1, Len(wire)) = wire
     /\ \A s \in SocketIds :
          (sockets[s].st = "connecting" /\ sockets'[s].st = "open") =>
            /\ Len(wire') = Len(wire) + Len(messageQueue)
            /\ \A i \in 1..Len(messageQueue) :
                 wire'[Len(wire) + i] = Frame(s, messageQueue[i], TRUE)
            /\ messageQueue' = <<>>]_vars

\* two different messages queued while connecting were written, in their
\* order, to the socket that opened
C19_Witness ==
  /\ isConnected
  /\ messageQueue = <<>>
  /\ Len(wire) = 2
  /\ wire[1] = Frame(webSocketRef, "o1", TRUE)
  /\ wire[2] = Frame(webSocketRef, "o2", TRUE)

\* a step in which the connect() that handleSend awaits resolves true
ReconnectSucceeded ==
  /\ sendOp.phase = "awaiting"
  /\ \E s \in SocketIds :
       /\ sockets[s].awaited
       /\ sockets[s].st = "connecting"
       /\ sockets'[s].st = "open"

\* the frames that carry a chat message of the user
UserFrames(frames) == { i \in 1..Len(frames) : frames[i].message = UserFrame }

\* C20: in duplex mode, when a user message is sent while the session is
\* disconnected and the reconnect succeeds, the message is retried exactly
\* once: the send operation terminates, the message is dispatched to the
\* transport exactly once, and the log holds all earlier messages followed
\* by exactly one copy of the user message.
C20_RetriedExactlyOnce ==
  [][ReconnectSucceeded =>
       /\ sendOp'.phase = "none"
       /\ Cardinality(UserFrames(wire')) = Cardinality(UserFrames(wire)) + 1
       /\ selectedConversation'.messages = Append(sendOp.pre, UserMessage(sendOp.text))]_vars

\* the log of conversation id in the store
StoreLog(id) ==
  IF selectedConversation.id = id THEN selectedConversation.messages
  ELSE LogOf(conversations, id)

\* C21: every inbound event is reconciled against the store produced by all
\* earlier events and user actions: the log the reconciliation starts from
\* is the log the store holds when the event is delivered, so no earlier
\* event or user message is lost by folding a later event into an older
\* snapshot.
C21_ReconciledAgainstCurrentStore ==
  [][(last'.outcome = "applied") => last'.pre = StoreLog(last'.target)]_vars

\* C22: an inbound event that belongs to conversation X is folded into
\* conversation X and into no other: every other conversation of the list,
\* and the selected conversation when it is another one, is the same before
\* and after the reconciliation.
C22_OtherConversationsUntouched ==
  [][(last'.outcome = "applied" /\ last'.ev.conversation_id # Undefined) =>
       LET X == last'.ev.conversation_id IN
         /\ last'.target = X
         /\ Len(conversations') = Len(conversations)
         /\ \A i \in 1..Len(conversations) :
              conversations[i].id # X => conversations'[i] = conversations[i]
         /\ selectedConversation.id # X => selectedConversation' = selectedConversation]_vars

\* the kind guards a payload satisfies
KindsOf(message) ==
  { k \in { "response", "intermediate", "interaction", "error" } :
      \/ k = "response" /\ isSystemResponseMessage(message)
      \/ k = "intermediate" /\ isSystemIntermediateMessage(message)
      \/ k = "interaction" /\ isSystemInteractionMessage(message)
      \/ k = "error" /\ isErrorMessage(message) }

\* C27: the classifier the handler applies accepts a payload exactly when it
\* is a non-null object whose type is one of system_response_message,
\* system_intermediate_message, system_interaction_message, error; an
\* accepted payload satisfies exactly one of the four kind guards, and every
\* other payload is classified invalid.
C27_ClassifierAcceptsFourKinds ==
  Handled =>
    /\ (last.outcome # "rejected") <=>
         (/\ last.ev.kind = "object"
          /\ last.ev.type \in { "system_response_message", "system_intermediate_message",
                                "system_interaction_message", "error" })
    /\ (last.outcome # "rejected") => Cardinality(KindsOf(last.ev)) = 1

\* C29: reconciliation is deterministic: applied to the same store and the
\* same event it produces the same result, which depends on nothing but
\* those two arguments (here: not on the setting kept in sessionStorage).
C29_ResultDependsOnArgumentsOnly ==
  \A message \in FeedPayloads(feed) :
    processWebSocketMessage(message, conversations, selectedConversation, TRUE)
      = processWebSocketMessage(message, conversations, selectedConversation, FALSE)

\* C30: while the intermediate-steps toggle is off, an intermediate-step
\* event is suppressed before reconciliation: the message log (and with it
\* every step sequence) and the conversation list are unchanged by it.
C30_StepsSuppressedWhenOff ==
  (Handled /\ isSystemIntermediateMessage(last.ev) /\ ~enableIntermediateSteps) =>
    /\ last.outcome = "suppressed"
    /\ last.post = last.pre
    /\ ~last.changed

\* a step event arrived with the toggle off while an assistant message with
\* a step was open
C30_Witness ==
  /\ Handled
  /\ isSystemIntermediateMessage(last.ev)
  /\ ~enableIntermediateSteps
  /\ IsLastAssistant(last.pre)
  /\ Len(last.pre[Len(last.pre)].intermediateSteps) > 0
  /\ selectedConversation.messages = last.pre

\* the first non-empty of oauth_url, redirect_url and text of an
\* oauth_consent interaction, <<>> when there is none or the event is not one
C28_Expected(message) ==
  IF ~(message.kind = "object" /\ message.type = "system_interaction_message"
         /\ message.hasContent /\ message.input_type = "oauth_consent")
    THEN <<>>
  ELSE IF message.oauth_url # Undefined /\ message.oauth_url # ""
    THEN <<message.oauth_url>>
  ELSE IF message.redirect_url # Undefined /\ message.redirect_url # ""
    THEN <<message.redirect_url>>
  ELSE IF message.hasText THEN message.text
  ELSE <<>>

\* C28: the redirect address of an external-redirect interaction is the
\* first non-empty of oauth_url, redirect_url and text, in this order;
\* extractOAuthUrl returns null when none is present or when the event is
\* not an oauth_consent interaction; the address the handler opens is the
\* one so chosen.
C28_AddressByPriority ==
  (Handled /\ last.outcome # "rejected") =>
    /\ extractOAuthUrl(last.ev) = C28_Expected(last.ev)
    /\ last.opened = C28_Expected(last.ev)

\* an interaction with an empty oauth_url, a redirect_url and a text was
\* handled, and the redirect_url was opened
C28_Witness ==
  /\ Handled
  /\ last.ev.input_type = "oauth_consent"
  /\ last.ev.oauth_url = ""
  /\ last.ev.hasText
  /\ last.opened = <<last.ev.redirect_url>>

\* the display name the store holds for conversation id
StoreName(id) ==
  IF selectedConversation.id = id THEN selectedConversation.name
  ELSE conversations[FindConversation(conversations, id)].name

\* a response event with content was folded into a conversation whose log
\* began with a user message
C26_FirstContentReceived ==
  /\ Handled
  /\ last.outcome = "applied"
  /\ shouldAppendResponseContent(last.ev)
  /\ Len(last.pre) > 0
  /\ last.pre[1].role = "user"
  /\ FindConversation(conversations, last.target) # 0

\* C26: once a conversation has received content for its first user
\* message, its display name is that message, cut to its first 30
\* characters and followed by '...' when it is longer than 30 characters.
C26_TitleFromFirstUserMessage ==
  C26_FirstContentReceived =>
    StoreName(last.target) =
      (IF Len(last.pre[1].content) > 30
         THEN SubSeq(last.pre[1].content, 1, 30) \o <<".", ".", ".">>
         ELSE last.pre[1].content)

\* the body arrives in two chunks and the boundary falls inside the
\* marker pair: after the first character of the start marker and before
\* the last character of the end marker
C23_PairSplit ==
  /\ http.phase = "reading"
  /\ Len(http.read) >= 1
  /\ Len(http.read) + Len(http.chunks) = 2
  /\ Len(http.read[1]) >= 2
  /\ Len(http.read[1]) <= Len(Stream(feed)) - 2

\* C23: when the marker pair is split across two chunks, the first chunk
\* leaves the text before the pair as the only visible text and the
\* unterminated part in the buffer; after the second chunk the visible text
\* is "AB", the segment was decoded at most once, and it was honoured only
\* if its type is the reserved one.
C23_SplitPairBuffered ==
  C23_PairSplit =>
    IF Len(http.read) = 1
      THEN /\ http.loop.text = <<"A">>
           /\ http.loop.partialIntermediateStep
                = SubSeq(http.read[1], 2, Len(http.read[1]))
      ELSE /\ http.loop.text = <<"A", "B">>
           /\ Len(http.loop.raw) <= 1
           /\ http.loop.raw # <<>> => feed # "other"

\* C24: whatever the chunks the body arrives in, once the body is read the
\* visible text and the segments decoded are those of the body read as a
\* single chunk.
C24_ChunkBoundariesIrrelevant ==
  http.phase = "done" =>
    LET whole == DecodeAll(LoopStart(Conversation(Undefined, <<>>, <<>>)),
                           <<Stream(feed)>>, DotAll)
    IN /\ http.loop.text = whole.text
       /\ http.loop.raw = whole.raw

\* C25: once the selected conversation has a title, no step changes it.
C25_TitleAssignedOnce ==
  [][selectedConversation.name # DefaultName
       => selectedConversation'.name = selectedConversation.name]_vars

\* the steps of the open assistant message before the event, none when the
\* event created the message
C31_StepsBefore == IF OpenBefore THEN PreLast.intermediateSteps ELSE <<>>

C31_Known ==
  { i \in 1..Len(C31_StepsBefore) : C31_StepsBefore[i].ev.id = last.ev.id }

C32_Closed(s) ==
  /\ sockets[s].st \in { "connecting", "open", "closing" }
  /\ sockets'[s].st \in { "closed", "free" }

\* C32: a close with a code other than 1000, in always-on mode and with
\* fewer than maxRetries retries made, schedules exactly one reconnect: the
\* timer of the closed socket, with delay 1000 * 2^k for retry count k, and
\* nothing else that connects.
C32_OneReconnectWithBackoff ==
  [][\A s \in SocketIds :
       (C32_Closed(s) /\ reconnects'.code # 1000 /\ isWebSocketMode
          /\ sockets[s].retry < maxRetries) =>
         /\ sockets'[s].st = "closed"
         /\ reconnectTimeoutRef' = s
         /\ reconnects'.delay =
              (CASE sockets[s].retry = 0 -> 1000
                 [] sockets[s].retry = 1 -> 2000
                 [] sockets[s].retry = 2 -> 4000)
         /\ ~(effectDue' /\ ~effectDue)]_vars

\* socket s stops connecting in this step
C33_Ended(s) == sockets[s].st = "connecting" /\ sockets'[s].st # "connecting"

\* handleSend awaits the promise of the connect() call that created s
C33_Awaited(s) == sockets[s].awaited /\ sendOp.phase = "awaiting"

\* C33, the outcomes: a socket that stops connecting either opened, and
\* then the session is connected through it and the promise awaited
\* resolves true (the send is retried), or it did not, and then the
\* session is not connecting, the socket is not the session's, the session
\* is not connected once the close event of the socket was handled (the
\* connectTimeout only starts the close), and the promise awaited resolves
\* false (the send is given up).
C33_Outcome ==
  [][\A s \in SocketIds :
       C33_Ended(s) =>
         IF sockets'[s].st = "open"
           THEN /\ isConnected' /\ ~isConnecting' /\ webSocketRef' = s
                /\ C33_Awaited(s) => sendOp'.phase = "looping"
           ELSE /\ ~isConnecting' /\ webSocketRef' # s
                /\ sockets'[s].st # "closing" => ~isConnected'
                /\ C33_Awaited(s) => sendOp' = NoSendOp]_vars

\* C33: every connection attempt ends.  A socket that is connecting stops
\* connecting (by open, open failure or the connectTimeout), with the
\* outcomes above.
C33_AttemptEnds ==
  /\ C33_Outcome
  /\ \A s \in SocketIds :
       (sockets[s].st = "connecting") ~> (sockets[s].st # "connecting" \/ BoundReached)

\* the connectTimeout of a connecting socket fired: the socket is being
\* closed with no close event delivered yet, and the session is not
\* connecting
C33_Witness ==
  \E s \in SocketIds :
    /\ sockets[s].st = "closing"
    /\ sockets[s].code = 1006
    /\ ~isConnecting

\* plain text, a complete segment JSON.parse rejects, a complete segment it
\* accepts, plain text: one chunk
C34_Mixed ==
  <<"A">> \o StartMarker \o <<"{">> \o EndMarker
          \o StartMarker \o <<StepJson>> \o EndMarker \o <<"B">>

\* s with every complete segment removed, whatever the segment contains
C34_Visible(s) == Without(s, Segments(s, 1, TRUE), 1)

C34_Decoded == DecodeChunk(LoopStart(selectedConversation), C34_Mixed, DotAll)

\* C34: a complete segment that does not parse is dropped and the other
\* complete segments of the chunk are decoded; the visible text of a chunk
\* is the chunk with every complete segment removed, parseable or not and
\* whatever characters it contains.
C34_BadSegmentDroppedAllStripped ==
  /\ C34_Decoded.raw = <<[type |-> "system_intermediate", id |-> "s1"]>>
  /\ C34_Decoded.text = C34_Visible(C34_Mixed)
  /\ (http.phase = "reading" /\ http.read = <<Stream(feed)>>) =>
       http.loop.text = C34_Visible(Stream(feed))

\* the locals of the decode loop after these chunks, the iterations run one
\* by one
RECURSIVE C35_Processed(_, _, _)
C35_Processed(loop, chunks, dotAll) ==
  IF chunks = <<>> THEN loop
  ELSE C35_Processed(DecodeChunk(loop, Head(chunks), dotAll), Tail(chunks), dotAll)

\* the log the aborted call started to answer: up to the message it sent
C35_Asked ==
  IF http.read = <<>> THEN selectedConversation.messages
  ELSE SubSeq(selectedConversation.messages, 1, Len(selectedConversation.messages) - 1)

C35_Expected ==
  C35_Processed(LoopStart([selectedConversation EXCEPT !.messages = C35_Asked]),
                http.read, DotAll)

\* C35: after an abort the log is the log sent followed, if a chunk was
\* processed, by one assistant message holding the text and the steps of
\* the chunks processed and nothing of the carry-over buffer; loading and
\* streaming are off and no error notification was raised.
C35_AbortKeepsProcessedChunksOnly ==
  http.phase = "aborted" =>
    /\ C35_Asked # <<>>
    /\ C35_Asked[Len(C35_Asked)].role = "user"
    /\ C35_Asked[Len(C35_Asked)].content = http.message
    /\ selectedConversation.messages = C35_Expected.updatedConversation.messages
    /\ ~loading
    /\ ~messageIsStreaming
    /\ ~http.toast

\* aborted after a chunk that ends inside a segment: the buffer held the
\* unterminated part
C35_Witness ==
  /\ http.phase = "aborted"
  /\ http.read # <<>>
  /\ C35_Expected.partialIntermediateStep # <<>>

\* C36: the edit of the message at position i (counted from 0) leaves the
\* log made of the i messages that preceded it, unchanged, followed by the
\* edited message.
C36_EditReplacesSuffixOnly ==
  [][\A text \in HttpTexts, i \in 0..MaxMessages :
       OnEdit(text, i) =>
         /\ Len(selectedConversation'.messages) = i + 1
         /\ \A k \in 1..i :
              selectedConversation'.messages[k] = selectedConversation.messages[k]
         /\ selectedConversation'.messages[i + 1] = UserMessage(text)]_vars

\* the third message of a log was edited after its first send was refused:
\* the two messages of the history precede the edited one
C36_Witness ==
  /\ http.phase = "fetching"
  /\ http.sends = 2
  /\ conversations[1].messages = History
  /\ Len(selectedConversation.messages) = 3
  /\ SubSeq(selectedConversation.messages, 1, 2) = History

\* C37: an oauth_consent interaction without a usable address raises a
\* notification and does nothing else: no window is opened (and with it no
\* listener registered) and the store is unchanged.
C37_NoAddressNotifiedOnly ==
  last.outcome = "oauth-no-url" =>
    /\ last.toast
    /\ last.opened = <<>>
    /\ ~last.changed

C38_LastOf(records) == records[Len(records)]

\* C38: reconciliation leaves its inputs as they were: the ErrorRecord or
\* InteractionRecord stored by an applied event is the event as received,
\* and the messages of the conversation passed to processWebSocketMessage
\* are after the call what they were before it.
C38_InputsUnmodified ==
  Applied =>
    /\ last.ev.type = errorType =>
         /\ PostLast.errorMessages # <<>>
         /\ C38_LastOf(PostLast.errorMessages) = last.ev
    /\ last.ev.type = systemInteractionMessage =>
         /\ PostLast.humanInteractionMessages # <<>>
         /\ C38_LastOf(PostLast.humanInteractionMessages) = last.ev
    /\ variant = "processor" => view.selectedConversation.messages = last.pre

C39_NoAdjacentAssistants(messages) ==
  \A i \in 1..(Len(messages) - 1) :
    ~(messages[i].role = "assistant" /\ messages[i + 1].role = "assistant")

\* C39: no log of the store, of the selected conversation or of the
\* handler's view holds two adjacent assistant messages.
C39_AssistantsNeverAdjacent ==
  /\ C39_NoAdjacentAssistants(selectedConversation.messages)
  /\ C39_NoAdjacentAssistants(view.selectedConversation.messages)
  /\ \A i \in 1..Len(conversations) : C39_NoAdjacentAssistants(conversations[i].messages)
  /\ \A i \in 1..Len(view.conversations) :
       C39_NoAdjacentAssistants(view.conversations[i].messages)

\* an event met a log ending with the assistant message that answers a
\* user message, and no message was added
C39_Witness ==
  /\ Applied
  /\ OpenBefore
  /\ Len(last.pre) >= 2
  /\ last.pre[Len(last.pre) - 1].role = "user"
  /\ Len(last.post) = Len(last.pre)

\* the connect() awaited by handleSend resolves false in this step: the
\* socket it created stops connecting without opening
C40_ConnectFailed ==
  \E s \in SocketIds :
    /\ sockets[s].awaited /\ sendOp.phase = "awaiting"
    /\ sockets[s].st = "connecting" /\ sockets'[s].st \notin {"connecting", "open"}

\* handleSend runs in this step and its connect() returns false at once
C40_ConnectRefused ==
  /\ \E text \in UserTexts : HandleSendDuplex(text)
  /\ ~isConnected
  /\ ConnectResult(connectSeesConnecting) = "busy"

\* handleSend runs in this step and sendUserMessage returns false
C40_SendRefused ==
  /\ \E text \in UserTexts : HandleSendDuplex(text)
  /\ isConnected
  /\ ~lastSend'.returned

C40_Disconnected == isConnected /\ ~isConnected'

\* C40: a step in which connect() resolves false for handleSend, in which
\* sendUserMessage returns false, or in which the session stops being
\* connected, leaves loading and messageIsStreaming off.
C40_FlagsResetOnFailedSend ==
  [][(C40_ConnectFailed \/ C40_ConnectRefused \/ C40_SendRefused \/ C40_Disconnected) =>
       (~loading' /\ ~messageIsStreaming')]_vars

\* a send was given up: its message is in the selected conversation and not
\* in the store, no send is under way and the flags are off
C40_Witness ==
  /\ sendOp.phase = "none"
  /\ ~isConnected
  /\ Len(selectedConversation.messages) > Len(conversations[1].messages)
  /\ ~loading
  /\ ~messageIsStreaming

====
